---------------------------- MODULE Spec2Model ----------------------------
(***************************************************************************)
(* Dooms Deal Clock: the ingestion pipeline (ClockService), the channel    *)
(* gateway (TelegramService), the record store (table clock_updates) and   *)
(* the serving operations that drive them (POST fetch, POST reload).       *)
(*                                                                         *)
(* Calls run as coroutines on one event loop.  A coroutine runs without    *)
(* interruption until it awaits something that suspends it (the network:   *)
(* connect, message retrieval, the download of a photo, disconnect), so    *)
(* every action below is the code of one call from one suspension to the   *)
(* next.  The store calls are synchronous.  Each call owns its own store   *)
(* session (get_db yields one per request); the sessions are created with  *)
(* autoflush=False, so a query sees the committed rows and the rows the    *)
(* session itself has flushed, never its pending objects.                  *)
(*                                                                         *)
(* Environment.  These calls may fail: connect, message retrieval, the     *)
(* image download, disconnect, and the store's query, flush and commit.    *)
(* db.rollback() is taken to succeed.                                      *)
(*                                                                         *)
(* Configuration.  TelegramService.connect() is called without a password  *)
(* and then reads config.TELEGRAM_2FA_PASSWORD (client.py:55).  The class  *)
(* Config of src/app/config.py declares no such attribute: with the        *)
(* configuration as it is the read raises AttributeError, before anything  *)
(* is awaited, in every connect().  client.py, scripts/telegram_auth.py    *)
(* and tests/unit/telegram_api/test_client.py expect the attribute to be   *)
(* there.  proc.two_fa tells whether the config object carries it: FALSE   *)
(* is config.py as it is, TRUE a config object that has the attribute; a   *)
(* behaviour starts in either.                                             *)
(*                                                                         *)
(* Client.  `async for` awaits every message of the windowed fetch; the    *)
(* Telegram client decides whether such an await suspends the call.        *)
(* proc.chunked tells which client the process talks to: one that hands    *)
(* over all messages after one await, or one that suspends at every        *)
(* message it has.                                                         *)
(***************************************************************************)
EXTENDS Integers, Sequences, FiniteSets, TLC

VARIABLES
    channel,    \* the source channel: its messages, newest first
    store,      \* the committed rows of table clock_updates
    calls,      \* the calls, in the order they start: one record per call
    faults,     \* number of environment failures so far
    loop,       \* the periodic background task (BackgroundTaskService)
    parsed,     \* MessageParser: the text handed to it and what it returned
    schema,     \* the columns of table clock_updates, and the migration's runs
    proc        \* the process of run.py: its environment and how far it got

vars == <<channel, store, calls, faults, loop, parsed, schema, proc>>

(***************************************************************************)
(* Bounds of the model.                                                    *)
(***************************************************************************)
MaxCalls == 2       \* calls made in one behaviour (they may all overlap)
MaxFaults == 1      \* environment failures in one behaviour
LongLen == 51       \* length of the long channel (more than FlushEvery)

\* datetime.utcnow(), in days
Now == 40

(***************************************************************************)
(* Program constants.                                                      *)
(***************************************************************************)
FetchLimit == 5     \* get_latest_messages(limit=5)
FlushEvery == 50    \* if updates_count % 50 == 0: db.flush()
DefaultDays == 30   \* days: int | None = 30

None == <<>>          \* Python None: an absent optional value
Some(x) == <<x>>      \* a present optional value
Val(o) == o[1]
Calls == 1..MaxCalls

(***************************************************************************)
(* Texts are sequences of characters.                                      *)
(***************************************************************************)
Digits == {"0", "1", "2", "3", "4", "5", "6", "7", "8", "9"}

Slice(s, i, n) == [k \in 1..n |-> s[i + k - 1]]

\* Does the token sequence pat match text at position i?  "d" is \d, any
\* other token is the literal character.
MatchTail(text, i, pat) ==
    /\ i + Len(pat) - 1 <= Len(text)
    /\ \A k \in 1..Len(pat) :
          IF pat[k] = "d" THEN text[i + k - 1] \in Digits
                          ELSE text[i + k - 1] = pat[k]

\* Length of the match of \d{1,2}<tail> at position i (greedy: two digits
\* are tried before one), 0 when there is none.
MatchAt(text, i, tail) ==
    IF MatchTail(text, i, <<"d", "d">> \o tail) THEN 2 + Len(tail)
    ELSE IF MatchTail(text, i, <<"d">> \o tail) THEN 1 + Len(tail)
    ELSE 0

\* re.search: the leftmost match, as the matched substring, or None.
Search(text, tail) ==
    LET hits == {i \in 1..Len(text) : MatchAt(text, i, tail) > 0}
    IN  IF hits = {} THEN None
        ELSE LET i == CHOOSE h \in hits : \A g \in hits : h <= g
             IN  Some(Slice(text, i, MatchAt(text, i, tail)))

time_patterns ==
    << <<":", "d", "d", ":", "d", "d">>,
       <<":", "d", "d">>,
       <<".", "d", "d">> >>

\* for pattern in time_patterns: the first pattern that matches decides
RECURSIVE FirstPattern(_, _)
FirstPattern(message_text, p) ==
    IF p > Len(time_patterns) THEN None
    ELSE LET match == Search(message_text, time_patterns[p])
         IN  IF match # None THEN match
             ELSE FirstPattern(message_text, p + 1)

extract_time_from_message(message_text) == FirstPattern(message_text, 1)

(***************************************************************************)
(* base64.b64encode: three bytes become four 6-bit digits (indices into    *)
(* the base64 alphabet), a short last group is padded with "=", written    *)
(* here as digit 64.                                                       *)
(***************************************************************************)
RECURSIVE B64Encode(_)
B64Encode(bytes) ==
    IF bytes = <<>> THEN <<>>
    ELSE LET n  == Len(bytes)
             b1 == bytes[1]
             b2 == IF n >= 2 THEN bytes[2] ELSE 0
             b3 == IF n >= 3 THEN bytes[3] ELSE 0
             v  == b1 * 65536 + b2 * 256 + b3
             s3 == IF n >= 2 THEN (v \div 64) % 64 ELSE 64
             s4 == IF n >= 3 THEN v % 64 ELSE 64
             rest == IF n > 3 THEN SubSeq(bytes, 4, n) ELSE <<>>
         IN  <<v \div 262144, (v \div 4096) % 64, s3, s4>> \o B64Encode(rest)

(***************************************************************************)
(* Channel messages.  text <<>> stands for a message without text (None or *)
(* the empty string); date is None, Some(day) (a timezone-aware datetime)  *)
(* or NaiveDate(day) (a datetime without tzinfo, which cannot be compared  *)
(* with an aware one); media is "none", "photo" (MessageMediaPhoto) or     *)
(* "document"; bytes is what download_media writes.                        *)
(***************************************************************************)
NaiveDate(day) == <<day, "naive">>
Naive(date) == Len(date) = 2

Msg(id, text, date, media, bytes) ==
    [id |-> id, text |-> text, date |-> date, media |-> media, bytes |-> bytes]

TxtColon == <<"2", "3", ":", "4", "2">>
TxtDot == <<"a", " ", "9", ".", "0", "5">>
TxtPlain == <<"n", "o">>
TxtShort == <<"x">>

ChTwo ==
    << Msg(2, TxtColon, Some(39), "photo", <<77, 97>>),
       Msg(1, TxtDot, Some(38), "none", <<>>) >>

\* two messages of the same date
ChTie ==
    << Msg(2, TxtPlain, Some(39), "none", <<>>),
       Msg(1, TxtShort, Some(39), "none", <<>>) >>

\* the same message id twice in one batch
ChDup ==
    << Msg(1, TxtColon, Some(39), "photo", <<1, 2, 3, 4>>),
       Msg(1, TxtPlain, Some(39), "none", <<>>) >>

\* a message without text, a message without date
ChNoText ==
    << Msg(2, <<>>, Some(39), "photo", <<77>>),
       Msg(1, TxtPlain, None, "document", <<>>) >>

\* more messages than the bounded fetch retrieves; the date of the first
\* is naive, the third is older than the default cutoff
ChSix ==
    << Msg(6, TxtPlain, NaiveDate(39), "none", <<>>),
       Msg(5, TxtPlain, Some(38), "none", <<>>),
       Msg(4, TxtColon, Some(5), "none", <<>>),
       Msg(3, TxtPlain, Some(37), "none", <<>>),
       Msg(2, TxtDot, Some(36), "photo", <<255>>),
       Msg(1, TxtPlain, Some(35), "none", <<>>) >>

\* a channel of LongLen distinct text messages, newest first; the message
\* after the FlushEvery newest carries a photo
LongChannel ==
    [i \in 1..LongLen |->
        Msg(LongLen + 1 - i, TxtShort, Some(39),
            IF i = FlushEvery + 1 THEN "photo" ELSE "none", <<i>>)]

Channels == {ChTwo, ChDup, ChNoText, ChSix}

\* the days arguments the windowed fetch is called with
DaysArgs == {None, Some(0)}

\* days given and not given, negative, zero and positive
WindowDays == {None, Some(-1), Some(0), Some(1), Some(36)}

\* mutant: without days there is no cutoff
MinDate_NoDefault(days) ==
    IF days = None THEN None
    ELSE IF Val(days) <= 0 THEN None ELSE Some(Now - Val(days))

\* the parser not called, the table as models.py declares it, the process
\* past its start: what the parts are when a specification leaves them alone
NotParsed == [pc |-> "idle", message_text |-> <<>>, raised |-> FALSE, value |-> <<>>]
ModelColumns == {"id", "message_id", "content", "time_value", "image_data",
                 "created_at", "updated_at"}
Migrated == [exists |-> TRUE, columns |-> ModelColumns, runs |-> 0,
             raised |-> FALSE]
required_fields == {"TELEGRAM_API_ID", "TELEGRAM_API_HASH", "TELEGRAM_PHONE"}
Serving == [pc |-> "serving", env |-> [f \in required_fields |-> <<"set">>],
            raised |-> FALSE, served |-> 0, two_fa |-> FALSE, chunked |-> TRUE]

\* the config objects: config.py as it is, without the attribute
\* TELEGRAM_2FA_PASSWORD, and a config object that carries it
Configured == {[Serving EXCEPT !.two_fa = two_fa] : two_fa \in BOOLEAN}

\* the same with the clients: one whose iter_messages hands over the
\* messages of the channel in one chunk, after one await, and one whose
\* iter_messages suspends at every message
Clients == Configured \cup {[Serving EXCEPT !.two_fa = TRUE, !.chunked = FALSE]}

\* the texts of the parser: at most MaxPieces pieces each, among them a
\* filler of ShortLen and one of FillerLen characters
MaxStarts == 2      \* starts of the process in one behaviour
MaxRequests == 2    \* requests served by one process
MaxPieces == 3
ShortLen == 10
FillerLen == 201

\* the limits the history is asked with
DefaultLimit == 10   \* limit: int = 10
Limits == {-1, 0, 1, 2, DefaultLimit}

\* the message ids reload is asked for
ReloadIds == {1, 2}

(***************************************************************************)
(* TelegramService: retrieval.                                             *)
(***************************************************************************)
Take(s, n) == IF Len(s) <= n THEN s ELSE SubSeq(s, 1, n)

\* mutant: the messages appended before the error are returned
get_latest_messages_Partial(limit, ok) ==
    IF ok THEN Take(channel, limit) ELSE Take(channel, 1)

\* get_latest_messages(limit): the limit newest messages, [] on any error
get_latest_messages(limit, ok) ==
    IF ok THEN Take(channel, limit) ELSE <<>>

\* mutant: the comparison error ends the iteration
Gateway_StopsAtError(message, min_date) ==
    IF message.date # None /\ min_date # None
    THEN IF Naive(message.date) THEN "break"
         ELSE IF Val(message.date) < Val(min_date) THEN "break"
         ELSE "yield"
    ELSE "yield"

\* mutant: messages older than min_date are left out, the iteration goes on
Gateway_Filters(message, min_date) ==
    IF message.date # None /\ min_date # None
    THEN IF Naive(message.date) THEN "skip"
         ELSE IF Val(message.date) < Val(min_date) THEN "skip"
         ELSE "yield"
    ELSE "yield"

\* the body of the loop of iter_channel_messages for one message of the
\* client: a message dated before min_date ends the iteration (break); a
\* message whose date cannot be compared with min_date raises inside the
\* try block and is passed over (continue); every other message is yielded
Gateway(message, min_date) ==
    IF message.date # None /\ min_date # None
    THEN IF Naive(message.date) THEN "skip"
         ELSE IF Val(message.date) < Val(min_date) THEN "break"
         ELSE "yield"
    ELSE "yield"

\* iter_channel_messages(min_date): the messages yielded, newest first,
\* when the iteration runs to its end
iter_channel_messages(min_date) ==
    LET Breaks(message) == Gateway(message, min_date) = "break"
        Yields(message) == Gateway(message, min_date) = "yield"
        breaks == {i \in 1..Len(channel) : Breaks(channel[i])}
        last   == IF breaks = {} THEN Len(channel)
                  ELSE (CHOOSE i \in breaks : \A j \in breaks : i <= j) - 1
    IN  SelectSeq(SubSeq(channel, 1, last), Yields)

\* mutant: without the except block's None, whatever the buffer holds after
\* a failed download is encoded
get_message_image_data_EncodesFailure(message, ok) ==
    IF message.media # "photo" THEN None
    ELSE Some(B64Encode(IF ok THEN message.bytes ELSE <<>>))

\* get_message_image_data: base64 of the photo, None without a photo or
\* when the download fails
get_message_image_data(message, ok) ==
    IF message.media # "photo" THEN None
    ELSE IF ok THEN Some(B64Encode(message.bytes))
    ELSE None

\* the cutoff of the windowed fetch
MinDate(days) ==
    LET d == IF days = None THEN DefaultDays ELSE Val(days)
    IN  IF d <= 0 THEN None ELSE Some(Now - d)

(***************************************************************************)
(* The record store.  A row of clock_updates:                              *)
(*   [id, message_id, content, time_value, image_data, created_at].        *)
(* A pending object is a row without id.                                   *)
(***************************************************************************)
ClockUpdate(message, image_data) ==
    [message_id |-> message.id,
     content    |-> message.text,
     time_value |-> extract_time_from_message(message.text),
     image_data |-> image_data,
     created_at |-> IF message.date # None THEN Val(message.date) ELSE Now]

MaxOf(S) == IF S = {} THEN 0 ELSE CHOOSE x \in S : \A y \in S : y <= x

\* mutant: a flush is visible to every session
Visible_Uncommitted(call) == store \cup UNION {calls[d].flushed : d \in DOMAIN calls}

\* what a query of a call's session sees: the committed rows and the rows
\* the session has flushed (autoflush=False: not its pending objects)
Visible(call) == store \cup call.flushed

\* existing = db.query(...).first(); if existing: ...
Exists(call, message_id) == \E r \in Visible(call) : r.message_id = message_id

\* INSERT of the pending objects, in order: the rows with their ids
InsertRows(call) ==
    LET base == MaxOf({r.id : r \in Visible(call)})
    IN  {[id         |-> base + k,
          message_id |-> call.pending[k].message_id,
          content    |-> call.pending[k].content,
          time_value |-> call.pending[k].time_value,
          image_data |-> call.pending[k].image_data,
          created_at |-> call.pending[k].created_at] : k \in 1..Len(call.pending)}

\* mutant: the column without unique=True
UniqueViolation_NoConstraint(call) == FALSE

\* message_id = Column(Integer, unique=True): does the INSERT of the
\* pending objects violate the uniqueness constraint?
UniqueViolation(call) ==
    \/ \E k \in 1..Len(call.pending) : Exists(call, call.pending[k].message_id)
    \/ \E k \in 1..Len(call.pending) : \E j \in 1..(k - 1) :
          call.pending[j].message_id = call.pending[k].message_id

\* SQLite has one writer: a session that has flushed holds the write lock
\* until it commits or rolls back, and another session's write fails
\* ("database is locked")
WriteLocked(c) == \E d \in Calls : d # c /\ calls[d].flushed # {}

(***************************************************************************)
(* Calls.  entry is "fetch" (POST /api/clock/fetch), "reload" (POST        *)
(* /api/clock/reload/{message_id}), "since" (fetch_and_store_since_days,   *)
(* called directly) or "cycle" (the bounded fetch of one cycle of the      *)
(* background loop).  pc is where the call is suspended:                   *)
(*   "connect"     in telegram_service.connect()                           *)
(*   "retrieve"    in the retrieval of the messages                        *)
(*   "download"    in get_message_image_data, for the photo of msgs[idx]   *)
(*   "disconnect"  in the finally block, in disconnect()                   *)
(*   "done"        the call has ended                                      *)
(* ("loop" and "commit" are passed through within one action.)             *)
(* result is the return value of the fetch (None: none yet), raised tells  *)
(* that the fetch ended by raising, response is the endpoint's answer      *)
(* (None: none yet).  errored, committed, added and disc record what the   *)
(* call did: connected, entered the except block, committed, the ids of    *)
(* the rows it committed, the number of its disconnect() calls.            *)
(***************************************************************************)
IdleCall ==
    [pc |-> "idle", entry |-> "none", arg |-> None, msgs |-> <<>>, idx |-> 0,
     pending |-> <<>>, flushed |-> {}, count |-> 0,
     result |-> None, raised |-> FALSE, response |-> None,
     connected |-> FALSE, errored |-> FALSE, committed |-> FALSE,
     added |-> {}, disc |-> 0]

\* the call as it enters its fetch, at await self.telegram_service.connect()
Entered(entry, arg) == [IdleCall EXCEPT !.pc = "connect", !.entry = entry, !.arg = arg]

\* the calls start in order
CanStart(c) ==
    /\ calls[c].pc = "idle"
    /\ \A d \in Calls : d < c => calls[d].pc # "idle"

Fault == faults < MaxFaults /\ faults' = faults + 1
NoFault == faults' = faults

\* mutant: a count of zero answered as an error
Respond_ZeroIsError(entry, raised, result) ==
    IF entry \notin {"fetch", "reload"} THEN None
    ELSE IF raised \/ Val(result) = 0 THEN <<500>> ELSE <<200, Val(result)>>

\* the endpoint's answer: <<200, updates_count>> to a fetch that returned,
\* <<500>> (HTTPException) to one that raised; the windowed fetch has no
\* endpoint
Respond(entry, raised, result) ==
    IF entry \notin {"fetch", "reload"} THEN None
    ELSE IF raised THEN <<500>> ELSE <<200, Val(result)>>

\* the fetch is entered and runs to its first suspension.  connect() reads
\* config.TELEGRAM_2FA_PASSWORD before it awaits client.start(): with the
\* attribute the call is suspended in client.start(); without it the
\* AttributeError ends the fetch in the same step (connect() stands before
\* the try block: no rollback, no disconnect, the exception reaches the
\* caller)
NewCall(entry, arg) ==
    IF proc.two_fa THEN Entered(entry, arg)
    ELSE [Entered(entry, arg) EXCEPT !.pc = "done", !.raised = TRUE,
                                     !.response = Respond(entry, TRUE, None)]

\* POST /api/clock/fetch
StartFetch(c) ==
    /\ CanStart(c)
    /\ calls' = [calls EXCEPT ![c] = NewCall("fetch", None)]
    /\ UNCHANGED <<channel, store, faults, loop, parsed, schema, proc>>

\* fetch_and_store_since_days(db, days)
StartSince(c, days) ==
    /\ CanStart(c)
    /\ calls' = [calls EXCEPT ![c] = NewCall("since", days)]
    /\ UNCHANGED <<channel, store, faults, loop, parsed, schema, proc>>

\* mutant: the reload without its deletion
StartReload_KeepsRow(c, message_id) ==
    /\ CanStart(c)
    /\ calls' = [calls EXCEPT ![c] = NewCall("reload", Some(message_id))]
    /\ UNCHANGED <<channel, store, faults, loop, parsed, schema, proc>>

\* mutant: the reload empties the table
StartReload_DeletesAll(c, message_id) ==
    /\ CanStart(c)
    /\ store' = {}
    /\ calls' = [calls EXCEPT ![c] = NewCall("reload", Some(message_id))]
    /\ UNCHANGED <<channel, faults, loop, parsed, schema, proc>>

\* POST /api/clock/reload/{message_id}: the existing row is deleted and the
\* deletion committed, then the bounded fetch is entered; a store error
\* here is answered with 500, without a fetch
StartReload(c, message_id) ==
    /\ CanStart(c)
    /\ UNCHANGED <<channel, loop, parsed, schema, proc>>
    /\ LET existing == {r \in Visible(calls[c]) : r.message_id = message_id}
           locked   == existing # {} /\ WriteLocked(c)
       IN  \/ /\ ~locked
              /\ store' = store \ (IF existing = {} THEN {}
                                   ELSE {CHOOSE r \in existing : TRUE})
              /\ calls' = [calls EXCEPT ![c] = NewCall("reload", Some(message_id))]
              /\ NoFault
           \/ /\ IF locked THEN NoFault ELSE Fault
              /\ calls' = [calls EXCEPT ![c] =
                     [Entered("reload", Some(message_id)) EXCEPT
                         !.pc = "done", !.response = <<500>>]]
              /\ UNCHANGED store

\* client.start() returns: connect() has returned, before the try block
Connect(c) ==
    /\ calls[c].pc = "connect"
    /\ proc.two_fa
    /\ calls' = [calls EXCEPT ![c].pc = "retrieve", ![c].connected = TRUE]
    /\ UNCHANGED <<channel, store, faults, loop, parsed, schema, proc>>

\* mutant: connect() inside the try block, its failure turned into 0
ConnectFails_Returns0(c) ==
    /\ calls[c].pc = "connect"
    /\ Fault
    /\ calls' = [calls EXCEPT ![c].pc = "done", ![c].result = Some(0),
                              ![c].errored = TRUE,
                              ![c].response = Respond(calls[c].entry, FALSE, Some(0))]
    /\ UNCHANGED <<channel, store, loop, parsed, schema, proc>>

\* client.start() raises: the call is not in its try block yet
ConnectFails(c) ==
    /\ calls[c].pc = "connect"
    /\ Fault
    /\ calls' = [calls EXCEPT ![c].pc = "done", ![c].raised = TRUE,
                              ![c].response = Respond(calls[c].entry, TRUE, None)]
    /\ UNCHANGED <<channel, store, loop, parsed, schema, proc>>

\* mutant: the except block without db.rollback()
Rollback_KeepsSession(call) ==
    [call EXCEPT !.result = Some(0), !.errored = TRUE, !.pc = "disconnect"]

\* mutant: the disconnect not in a finally block
Rollback_NoFinally(call) ==
    [call EXCEPT !.pending = <<>>, !.flushed = {}, !.result = Some(0),
                 !.errored = TRUE, !.pc = "done",
                 !.response = IF call.entry = "since" THEN None ELSE <<200, 0>>]

\* mutant: the except block re-raises
Rollback_Reraises(call) ==
    [call EXCEPT !.pending = <<>>, !.flushed = {}, !.raised = TRUE,
                 !.errored = TRUE, !.pc = "disconnect"]

\* mutant: the except block returns the count of the staged objects
Rollback_ReturnsCount(call) ==
    [call EXCEPT !.pending = <<>>, !.flushed = {}, !.result = Some(call.count),
                 !.errored = TRUE, !.pc = "disconnect"]

\* except Exception: db.rollback(); return 0 (then the finally block)
Rollback(call) ==
    [call EXCEPT !.pending = <<>>, !.flushed = {}, !.result = Some(0),
                 !.errored = TRUE, !.pc = "disconnect"]

\* the messages the loop of a call goes over: the list get_latest_messages
\* returned, or the messages of the client's iteration, which
\* iter_channel_messages takes one by one
Source(call) == IF call.entry = "since" THEN channel ELSE call.msgs

\* the message call is handling or downloading the photo of
Current(call) == Source(call)[call.idx]

\* A call within one step.  source is what its loop goes over; left is the
\* number of store calls (existence query, flush, commit) that succeed
\* before one raises by the environment: -1 when none raises, -2 once one
\* has raised.
Run(call, left) == [call |-> call, left |-> left, source |-> Source(call)]

\* the next store call raises
StoreFails(run) == run.left = 0

\* it has raised: the except block
StoreFailed(run) == [run EXCEPT !.call = Rollback(@), !.left = -2]

\* a store call has succeeded
Asked(run) == [run EXCEPT !.left = IF @ > 0 THEN @ - 1 ELSE @]

\* db.flush(): the pending objects are inserted, not committed
Flush(c, run) ==
    IF StoreFails(run) THEN StoreFailed(run)
    ELSE IF UniqueViolation(run.call) \/ WriteLocked(c)
    THEN [Asked(run) EXCEPT !.call = Rollback(@)]
    ELSE [Asked(run) EXCEPT
             !.call = [@ EXCEPT !.flushed = @ \cup InsertRows(run.call),
                                !.pending = <<>>]]

\* db.add(clock_update); updates_count += 1; the windowed fetch flushes at
\* every FlushEvery-th staged object
Staged(run, clock_update) ==
    [run EXCEPT !.call = [@ EXCEPT !.pending = Append(@, clock_update),
                                   !.count = @ + 1,
                                   !.idx = @ + 1]]

Stage(c, run, clock_update) ==
    IF run.call.entry = "since" /\ (run.call.count + 1) % FlushEvery = 0
    THEN Flush(c, Staged(run, clock_update))
    ELSE Staged(run, clock_update)

\* mutant: the loop without its text test
HasText_Always(message) == TRUE

\* if not message.text: continue
HasText(message) == message.text # <<>>

\* the loop comes to the next message of the client.  `async for` awaits
\* it: while the client has one, a client that suspends at every message
\* suspends the windowed fetch here
Await(run) ==
    IF /\ run.call.entry = "since"
       /\ run.call.pc = "loop"
       /\ ~proc.chunked
       /\ run.call.idx <= Len(run.source)
    THEN [run EXCEPT !.call = [@ EXCEPT !.pc = "retrieve"]]
    ELSE run

\* the message the loop has come to
Message(run) == run.source[run.call.idx]

\* what iter_channel_messages does with it
Gated(run) == Gateway(Message(run), MinDate(run.call.arg))

\* the loop has taken it: msgs of a windowed fetch are the messages the
\* iteration has handed over so far
Taken(run) ==
    IF run.call.entry = "since"
    THEN [run EXCEPT !.call = [@ EXCEPT !.msgs = Append(@, Message(run))]]
    ELSE run

\* continue: on to the next message
Skipped(run) == [run EXCEPT !.call = [@ EXCEPT !.idx = @ + 1]]

\* the body of the loop for message idx: a message without text or with a
\* visible row is skipped; a new message with a photo suspends the call in
\* the download; a new message without one is staged at once
Handle(c, run) ==
    IF run.call.entry = "since" /\ Gated(run) = "break"
    THEN [run EXCEPT !.call = [@ EXCEPT !.pc = "commit"]]
    ELSE IF run.call.entry = "since" /\ Gated(run) = "skip"
    THEN Await(Skipped(run))
    ELSE IF ~HasText(Message(run))
    THEN Await(Skipped(Taken(run)))
    ELSE IF StoreFails(run) THEN StoreFailed(Taken(run))
    ELSE IF Exists(run.call, Message(run).id)
    THEN Await(Skipped(Asked(Taken(run))))
    ELSE IF Message(run).media = "photo"
    THEN [Asked(Taken(run)) EXCEPT !.call = [@ EXCEPT !.pc = "download"]]
    ELSE Await(Stage(c, Asked(Taken(run)),
             ClockUpdate(Message(run),
                         get_message_image_data(Message(run), TRUE))))

\* n turns of the loop.  One turn is the body for message idx, or, after
\* the last message, the way on to the commit; a call that is suspended or
\* in its except block stays as it is
RECURSIVE Turns(_, _, _)
Turns(c, run, n) ==
    IF run.call.pc # "loop" THEN run
    ELSE IF n <= 1
    THEN IF run.call.idx > Len(run.source)
         THEN [run EXCEPT !.call = [@ EXCEPT !.pc = "commit"]]
         ELSE Handle(c, run)
    ELSE CHOOSE ran \in {Turns(c, half, n - (n \div 2)) :
                         half \in {Turns(c, run, n \div 2)}} : TRUE

\* the message loop from message idx on, up to the next suspension of the
\* call; after the last message the call is at the commit
RunLoop(c, run) ==
    CHOOSE ran \in {Turns(c, from, Len(from.source) + 1) : from \in {run}} : TRUE

\* mutant: updates_count counts every message handled
Committed_CountsAll(call) ==
    [call EXCEPT !.pending = <<>>, !.flushed = {},
                 !.result = Some(Len(call.msgs)), !.committed = TRUE,
                 !.added = {r.id : r \in call.flushed \cup InsertRows(call)},
                 !.pc = "disconnect"]

Committed(call) ==
    [call EXCEPT !.pending = <<>>, !.flushed = {},
                 !.result = Some(call.count), !.committed = TRUE,
                 !.added = {r.id : r \in call.flushed \cup InsertRows(call)},
                 !.pc = "disconnect"]

\* mutant: the commit replaces the stored row of a message_id (INSERT OR
\* REPLACE) where the constraint would refuse it
Proceed_Replaces(c, ran) ==
       IF ran.call.pc # "commit"
       THEN /\ calls' = [calls EXCEPT ![c] = ran.call]
            /\ UNCHANGED store
       ELSE IF StoreFails(ran) \/ (ran.call.pending # <<>> /\ WriteLocked(c))
       THEN /\ calls' = [calls EXCEPT ![c] = Rollback(ran.call)]
            /\ UNCHANGED store
       ELSE /\ calls' = [calls EXCEPT ![c] = Committed(ran.call)]
            /\ store' = {r \in store :
                            \A k \in 1..Len(ran.call.pending) :
                               ran.call.pending[k].message_id # r.message_id}
                         \cup ran.call.flushed \cup InsertRows(ran.call)

\* the loop has run, to the next suspension of the call or to the commit:
\* at the commit the call goes through it to the finally block.
\* db.commit() inserts the pending objects and commits the transaction; a
\* violated constraint or a locked database raises
Proceed(c, ran) ==
       IF ran.call.pc # "commit"
       THEN /\ calls' = [calls EXCEPT ![c] = ran.call]
            /\ UNCHANGED store
       ELSE IF \/ StoreFails(ran)
               \/ UniqueViolation(ran.call)
               \/ ran.call.pending # <<>> /\ WriteLocked(c)
       THEN /\ calls' = [calls EXCEPT ![c] = Rollback(ran.call)]
            /\ UNCHANGED store
       ELSE /\ calls' = [calls EXCEPT ![c] = Committed(ran.call)]
            /\ store' = store \cup ran.call.flushed \cup InsertRows(ran.call)

\* the await of the retrieval returns.  The bounded fetch has its list:
\* get_latest_messages(limit=5), [] when the retrieval failed.  The
\* windowed fetch has the message it awaited, message idx of the iteration,
\* or the iteration has ended.
Arrived(call, ok) ==
    IF call.entry = "since"
    THEN [call EXCEPT !.pc = "loop", !.idx = IF @ = 0 THEN 1 ELSE @]
    ELSE [call EXCEPT !.pc = "loop", !.idx = 1,
                      !.msgs = get_latest_messages(FetchLimit, ok)]

\* the download of the photo of message idx has ended (None when it
\* failed): the message is staged and the loop comes to its next message
Downloaded(c, call, ok, left) ==
    Await(Stage(c, Run([call EXCEPT !.pc = "loop"], left),
                ClockUpdate(Current(call),
                            get_message_image_data(Current(call), ok))))

\* the messages arrive and the loop runs to the next suspension of the call
Retrieve(c) ==
    /\ calls[c].pc = "retrieve"
    /\ \E ok \in BOOLEAN :
          /\ IF ok THEN NoFault ELSE Fault
          /\ ok \/ calls[c].entry # "since"
          /\ \E ran \in {RunLoop(c, Run(Arrived(calls[c], ok), -1))} :
                Proceed(c, ran)
    /\ UNCHANGED <<channel, loop, parsed, schema, proc>>

\* the download ends and the loop runs to the next suspension of the call
Download(c) ==
    /\ calls[c].pc = "download"
    /\ \E ok \in BOOLEAN :
          /\ IF ok THEN NoFault ELSE Fault
          /\ \E ran \in {RunLoop(c, Downloaded(c, calls[c], ok, -1))} :
                Proceed(c, ran)
    /\ UNCHANGED <<channel, loop, parsed, schema, proc>>

\* an exception inside the try block: the iteration of the windowed fetch
\* raises at the await, or the await returns and one of the store calls of
\* the step (an existence query, a flush or the commit) raises, after what
\* the step has staged before it.  The bounded fetch makes at most
\* FetchLimit queries and the commit; the windowed fetch a query for every
\* message of the channel, a flush at every FlushEvery-th of them and the
\* commit
TryRaises(c) ==
    /\ calls[c].pc \in {"retrieve", "download"}
    /\ Fault
    /\ \/ /\ calls[c].entry = "since"
          /\ calls[c].pc = "retrieve"
          /\ calls' = [calls EXCEPT ![c] = Rollback(calls[c])]
          /\ UNCHANGED store
       \/ \E left \in 0..(IF calls[c].entry = "since"
                          THEN Len(channel) + (Len(channel) \div FlushEvery)
                          ELSE FetchLimit) :
             \E ran \in {RunLoop(c, IF calls[c].pc = "retrieve"
                                     THEN Run(Arrived(calls[c], TRUE), left)
                                     ELSE Downloaded(c, calls[c], TRUE, left))} :
                /\ ran.left = -2 \/ (ran.call.pc = "commit" /\ StoreFails(ran))
                /\ Proceed(c, ran)
    /\ UNCHANGED <<channel, loop, parsed, schema, proc>>

\* db.close() by the caller of the fetch (get_db of the endpoints, the
\* finally block of start_periodic_updates): the session drops what it
\* still holds.  The windowed fetch is called with a session of its
\* caller's.
Closed(call) ==
    IF call.entry = "since" THEN call
    ELSE [call EXCEPT !.pending = <<>>, !.flushed = {}]

\* mutant: disconnect waits until no other call uses the gateway
Disconnect_WaitsForOthers(c) ==
    /\ calls[c].pc = "disconnect"
    /\ \A d \in DOMAIN calls :
          d # c => calls[d].pc \notin {"retrieve", "download", "disconnect"}
    /\ calls' = [calls EXCEPT ![c] = Closed([calls[c] EXCEPT
                 !.pc = "done", !.disc = calls[c].disc + 1,
                 !.response = Respond(calls[c].entry, calls[c].raised,
                                      calls[c].result)])]
    /\ UNCHANGED <<channel, store, faults, loop, parsed, schema, proc>>

\* finally: await self.telegram_service.disconnect(); the fetch returns (or
\* raises what it was cancelled with), its caller closes the session and
\* the endpoint answers
Disconnect(c) ==
    /\ calls[c].pc = "disconnect"
    /\ calls' = [calls EXCEPT ![c] = Closed([calls[c] EXCEPT
                 !.pc = "done", !.disc = calls[c].disc + 1,
                 !.response = Respond(calls[c].entry, calls[c].raised,
                                      calls[c].result)])]
    /\ UNCHANGED <<channel, store, faults, loop, parsed, schema, proc>>

\* the call of the cycle of the background task
LoopCall == MaxCalls

\* disconnect() raises in the finally block: the exception replaces the
\* return value and reaches the caller.  It also replaces the
\* CancelledError of a cycle that stop() has cancelled: the task is not
\* cancelled any more, it is in its cycle again with a fetch that has
\* raised an Exception
DisconnectFails(c) ==
    /\ calls[c].pc = "disconnect"
    /\ Fault
    /\ calls' = [calls EXCEPT ![c] = Closed([calls[c] EXCEPT
                 !.pc = "done", !.disc = calls[c].disc + 1,
                 !.raised = TRUE, !.result = None,
                 !.response = Respond(calls[c].entry, TRUE, None)])]
    /\ loop' = IF c = LoopCall /\ calls[c].entry = "cycle" /\ loop.pc = "stopped"
               THEN [loop EXCEPT !.pc = "cycle"]
               ELSE loop
    /\ UNCHANGED <<channel, store, parsed, schema, proc>>

(***************************************************************************)
(* BackgroundTaskService.  loop.pc is where the task is:                   *)
(*   "off"      no task yet (self.task is None)                            *)
(*   "created"  created by start(), not yet run                            *)
(*   "cycle"    in await fetch_and_store_updates(db): the call of the      *)
(*              cycle is calls[LoopCall], a slot the loop uses again for   *)
(*              every cycle                                                *)
(*   "sleep"    in asyncio.sleep(config.UPDATE_INTERVAL_SECONDS)           *)
(*   "backoff"  in asyncio.sleep(60), after a cycle that raised            *)
(*   "stopped"  cancelled by stop()                                        *)
(*   "returned" start_periodic_updates has returned                        *)
(*   "crashed"  ended by an exception (never reached by the code as it is) *)
(* cancel tells that task.cancel() was called and the CancelledError has   *)
(* not been thrown into the task yet; said is what start() or stop()       *)
(* logged last.  direct is where a start_periodic_updates() awaited by a   *)
(* caller of its own, without start(), is: "off" (not called), "cycle",    *)
(* "sleep", "backoff" or "returned"; the call of its cycle is              *)
(* calls[DirectCall].                                                      *)
(***************************************************************************)
LoopOff == [pc |-> "off", is_running |-> FALSE, cancel |-> FALSE, said |-> "none",
            direct |-> "off"]

\* self.task is not None
TaskExists == loop.pc # "off"

\* self.task.done(): the task was cancelled or has returned, and the fetch
\* it was cancelled in has left its finally block
TaskDone ==
    /\ loop.pc \in {"stopped", "returned", "crashed"}
    /\ calls[MaxCalls].pc \in {"idle", "done"}

\* is_task_running()
is_task_running == loop.is_running /\ TaskExists /\ ~TaskDone

\* mutant: start() creates a task whatever the state of the last one
start_Always ==
    /\ loop' = [loop EXCEPT !.pc = "created", !.cancel = FALSE,
                            !.said = "Background task started"]
    /\ UNCHANGED <<channel, store, calls, faults, parsed, schema, proc>>

\* background_service.start()
start ==
    /\ IF ~TaskExists \/ TaskDone
       THEN loop' = [loop EXCEPT !.pc = "created", !.cancel = FALSE,
                                !.said = "Background task started"]
       ELSE loop' = [loop EXCEPT !.said = "Background task already running"]
    /\ UNCHANGED <<channel, store, calls, faults, parsed, schema, proc>>

\* mutant: stop() cancels the task and leaves is_running as it is
stop_KeepsRunning ==
    /\ IF TaskExists /\ ~TaskDone
       THEN loop' = [loop EXCEPT !.cancel = TRUE,
                                !.said = "Background task stopped"]
       ELSE loop' = loop
    /\ UNCHANGED <<channel, store, calls, faults, parsed, schema, proc>>

\* background_service.stop()
stop ==
    /\ IF TaskExists /\ ~TaskDone
       THEN loop' = [loop EXCEPT !.is_running = FALSE, !.cancel = TRUE,
                                !.said = "Background task stopped"]
       ELSE loop' = [loop EXCEPT !.is_running = FALSE]
    /\ UNCHANGED <<channel, store, calls, faults, parsed, schema, proc>>

\* where the loop is once the fetch of its cycle is entered: suspended in
\* the fetch, or, when the fetch has raised already, in the sleep of except
\* Exception
CycleOf(call) == IF call.pc = "done" THEN "backoff" ELSE "cycle"

\* the first step of the task: start_periodic_updates returns when
\* is_running is set already, and otherwise sets it and enters its first
\* cycle
TaskBegins ==
    /\ loop.pc = "created"
    /\ ~loop.cancel
    /\ IF loop.is_running
       THEN /\ loop' = [loop EXCEPT !.pc = "returned"]
            /\ UNCHANGED calls
       ELSE /\ loop' = [loop EXCEPT !.pc = CycleOf(NewCall("cycle", None)),
                                    !.is_running = TRUE]
            /\ calls' = [calls EXCEPT ![LoopCall] = NewCall("cycle", None)]
    /\ UNCHANGED <<channel, store, faults, parsed, schema, proc>>

\* mutant: a cycle that raised ends the task
CycleEnds_Crashes ==
    /\ loop.pc = "cycle"
    /\ calls[LoopCall].pc = "done"
    /\ loop' = [loop EXCEPT !.pc =
                   IF calls[LoopCall].raised THEN "crashed" ELSE "sleep"]
    /\ UNCHANGED <<channel, store, calls, faults, parsed, schema, proc>>

\* the fetch of the cycle has ended: the task sleeps for the interval, or,
\* in except Exception, for the 60 seconds of the backoff
CycleEnds ==
    /\ loop.pc = "cycle"
    /\ ~loop.cancel
    /\ calls[LoopCall].pc = "done"
    /\ loop' = [loop EXCEPT !.pc =
                   IF calls[LoopCall].raised THEN "backoff" ELSE "sleep"]
    /\ UNCHANGED <<channel, store, calls, faults, parsed, schema, proc>>

\* a sleep ends: while self.is_running goes on with the next cycle, or
\* leaves the loop and start_periodic_updates returns
NextCycle ==
    /\ loop.pc \in {"sleep", "backoff"}
    /\ ~loop.cancel
    /\ IF loop.is_running
       THEN /\ loop' = [loop EXCEPT !.pc = CycleOf(NewCall("cycle", None))]
            /\ calls' = [calls EXCEPT ![LoopCall] = NewCall("cycle", None)]
       ELSE /\ loop' = [loop EXCEPT !.pc = "returned"]
            /\ UNCHANGED calls
    /\ UNCHANGED <<channel, store, faults, parsed, schema, proc>>

\* CancelledError at the await the call is suspended in.  It is no
\* Exception: the except block is passed by and nothing is rolled back.  In
\* connect the fetch ends; in the try block the finally block awaits
\* disconnect() with the session as it is; in disconnect the finally block
\* ends by the CancelledError, which replaces the return value, and
\* start_periodic_updates closes the session
Cancelled(call) ==
    IF call.pc = "connect"
    THEN Closed([call EXCEPT !.pc = "done", !.raised = TRUE])
    ELSE IF call.pc \in {"retrieve", "download"}
    THEN [call EXCEPT !.pc = "disconnect", !.raised = TRUE]
    ELSE IF call.pc = "disconnect"
    THEN Closed([call EXCEPT !.pc = "done", !.raised = TRUE, !.result = None,
                             !.disc = call.disc + 1])
    ELSE call

\* the CancelledError is thrown into the task where it is suspended: before
\* its first step, in the fetch of its cycle or in a sleep
TaskCancelled ==
    /\ loop.cancel
    /\ loop' = [loop EXCEPT !.pc = "stopped", !.cancel = FALSE]
    /\ calls' = [calls EXCEPT ![LoopCall] = Cancelled(calls[LoopCall])]
    /\ UNCHANGED <<channel, store, faults, parsed, schema, proc>>

\* a step of call c: the await it is suspended in returns or raises
CallStep(c) ==
    \/ Connect(c)
    \/ ConnectFails(c)
    \/ Retrieve(c)
    \/ Download(c)
    \/ TryRaises(c)
    \/ Disconnect(c)
    \/ DisconnectFails(c)

\* the slot of the fetch of a start_periodic_updates() awaited directly
DirectCall == MaxCalls - 1

\* await background_service.start_periodic_updates(), not through start():
\* it returns at once when is_running is set, and otherwise sets it and
\* enters its first cycle
CallDirect ==
    /\ loop.direct \in {"off", "returned"}
    /\ calls[DirectCall].pc \in {"idle", "done"}
    /\ IF loop.is_running
       THEN /\ loop' = [loop EXCEPT !.direct = "returned"]
            /\ UNCHANGED calls
       ELSE /\ loop' = [loop EXCEPT !.direct = CycleOf(NewCall("cycle", None)),
                                    !.is_running = TRUE]
            /\ calls' = [calls EXCEPT ![DirectCall] = NewCall("cycle", None)]
    /\ UNCHANGED <<channel, store, faults, parsed, schema, proc>>

\* a step of the fetch of the cycle of the direct call
DirectStep == CallStep(DirectCall)

\* the fetch of the cycle of the direct call has ended: sleep, or the
\* backoff of except Exception
DirectCycleEnds ==
    /\ loop.direct = "cycle"
    /\ calls[DirectCall].pc = "done"
    /\ loop' = [loop EXCEPT !.direct =
                   IF calls[DirectCall].raised THEN "backoff" ELSE "sleep"]
    /\ UNCHANGED <<channel, store, calls, faults, parsed, schema, proc>>

\* the sleep of the direct call has ended: while self.is_running goes on
\* with the next cycle or leaves the loop
DirectNextCycle ==
    /\ loop.direct \in {"sleep", "backoff"}
    /\ IF loop.is_running
       THEN /\ loop' = [loop EXCEPT !.direct = CycleOf(NewCall("cycle", None))]
            /\ calls' = [calls EXCEPT ![DirectCall] = NewCall("cycle", None)]
       ELSE /\ loop' = [loop EXCEPT !.direct = "returned"]
            /\ UNCHANGED calls
    /\ UNCHANGED <<channel, store, faults, parsed, schema, proc>>

\* a step of the fetch of the cycle; once the task is cancelled its next
\* step is the CancelledError
CycleStep == ~loop.cancel /\ CallStep(LoopCall)

(***************************************************************************)
(* MessageParser.  Its texts are sequences of code points.  The literals   *)
(* of parser.py are written here code point by code point, as the file     *)
(* holds them.                                                              *)
(***************************************************************************)
\* str.isspace(), and \s of re: the whitespace code points
Whitespace ==
    {9, 10, 11, 12, 13, 28, 29, 30, 31, 32, 133, 160, 5760, 8232, 8233,
     8239, 8287, 12288} \cup 8192..8202

\* \d of re: the decimal digits, here the ASCII and the Arabic-Indic ones
IsDigit(ch) == ch \in 48..57 \cup 1632..1641

\* int() of one digit
DigitValue(ch) == IF ch \in 48..57 THEN ch - 48 ELSE ch - 1632

\* int() of a group of one or two digits
ToInt(digits) ==
    IF Len(digits) = 1 THEN DigitValue(digits[1])
    ELSE 10 * DigitValue(digits[1]) + DigitValue(digits[2])

\* f"{n:02d}" for n in 0..99
Format02(n) == <<48 + (n \div 10), 48 + (n % 10)>>

\* str.lower() of one code point: Latin, Latin-1, Latin Extended-A (but
\* for the dotted capital I, whose lower case is two code points) and
\* Cyrillic capitals; every other code point of the texts below is its own
\* lower case
LowerChar(ch) ==
    IF ch \in 65..90 \cup 192..214 \cup 216..222 \cup 1040..1071 THEN ch + 32
    ELSE IF ch \in 1024..1039 THEN ch + 80
    ELSE IF ch \in 256..303 \cup 306..311 \cup 330..375 /\ (ch % 2) = 0
    THEN ch + 1
    ELSE IF ch \in 313..328 \cup 377..382 /\ (ch % 2) = 1 THEN ch + 1
    ELSE IF ch = 376 THEN 255
    ELSE ch

\* message_text.lower()
Lower(text) == [k \in 1..Len(text) |-> LowerChar(text[k])]

\* message_text.strip()
Strip(text) ==
    LET inked == {k \in 1..Len(text) : text[k] \notin Whitespace}
    IN  IF inked = {} THEN <<>>
        ELSE SubSeq(text, CHOOSE k \in inked : \A j \in inked : k <= j,
                          CHOOSE k \in inked : \A j \in inked : j <= k)

\* keyword in text
Contains(text, keyword) ==
    \E i \in 1..(Len(text) - Len(keyword) + 1) :
       \A j \in 1..Len(keyword) : text[i + j - 1] = keyword[j]

\* self.time_patterns: (\d{1,2}) and then groups - 1 times sep (\d{2})
parser_time_patterns ==
    << [sep |-> 58, groups |-> 3],     \* (\d{1,2}):(\d{2}):(\d{2})
       [sep |-> 58, groups |-> 2],     \* (\d{1,2}):(\d{2})
       [sep |-> 46, groups |-> 3],     \* (\d{1,2})\.(\d{2})\.(\d{2})
       [sep |-> 46, groups |-> 2] >>   \* (\d{1,2})\.(\d{2})

\* self.clock_keywords
clock_keywords ==
    << <<209, 8225, 286, 176, 209>>,
       <<286, 178, 209, 8364, 286, 181, 286, 188, 209>>,
       <<286, 188, 286, 184, 286, 189, 209, 402, 209, 8218>>,
       <<209, 286, 181, 286, 186, 209, 402, 286, 189, 286, 180>>,
       <<286, 180, 286, 190, 286, 179, 286, 190, 286, 178, 286, 190, 209, 8364>>,
       <<209, 286, 190, 286, 179, 286, 187, 286, 176, 209, 710, 286, 181, 286, 189, 286, 184, 286, 181>>,
       <<209, 286, 180, 286, 181, 286, 187, 286, 186, 286, 176>>,
       <<209, 209, 402, 286, 180, 286, 189, 286, 190, 286, 179, 286, 190>>,
       <<286, 180, 286, 190>>,
       <<286, 190, 209, 209, 8218, 286, 176, 286, 181, 209, 8218, 209, 209>>,
       <<286, 190, 209, 209, 8218, 286, 176, 286, 187, 286, 190, 209, 209, 338>> >>

\* does sep \d{2}, groups - 1 times over, match text from position j on?
TailAt(text, j, pattern) ==
    /\ j + 3 * (pattern.groups - 1) - 1 <= Len(text)
    /\ \A g \in 0..(pattern.groups - 2) :
          /\ text[j + 3 * g] = pattern.sep
          /\ IsDigit(text[j + 3 * g + 1])
          /\ IsDigit(text[j + 3 * g + 2])

\* the length of the first group when pattern matches at position i (two
\* digits are tried before one), 0 when it does not match there
HeadAt(text, i, pattern) ==
    IF /\ i + 1 <= Len(text)
       /\ IsDigit(text[i]) /\ IsDigit(text[i + 1])
       /\ TailAt(text, i + 2, pattern)
    THEN 2
    ELSE IF IsDigit(text[i]) /\ TailAt(text, i + 1, pattern) THEN 1
    ELSE 0

\* re.search(pattern, text): the position of the leftmost match, 0 for None
re_search(pattern, text) ==
    LET hits == {i \in 1..Len(text) : HeadAt(text, i, pattern) > 0}
    IN  IF hits = {} THEN 0 ELSE CHOOSE i \in hits : \A j \in hits : i <= j

\* match.groups() of the match of pattern at position i
Groups(text, i, pattern) ==
    LET head == HeadAt(text, i, pattern)
    IN  [g \in 1..pattern.groups |->
            IF g = 1 THEN SubSeq(text, i, i + head - 1)
            ELSE SubSeq(text, i + head + 3 * (g - 2) + 1,
                              i + head + 3 * (g - 2) + 2)]

\* f"{int(groups[0]):02d}:{int(groups[1]):02d}:{int(groups[2]):02d}", and
\* with two groups f"{int(groups[0]):02d}:{int(groups[1]):02d}:00"
FormatGroups(groups) ==
    Format02(ToInt(groups[1])) \o <<58>> \o Format02(ToInt(groups[2]))
    \o <<58>> \o (IF Len(groups) = 3 THEN Format02(ToInt(groups[3]))
                  ELSE <<48, 48>>)

\* mutant: the leftmost match of any pattern, whatever its format
extract_time_Leftmost(text) ==
    LET found == {p \in 1..Len(parser_time_patterns) :
                     re_search(parser_time_patterns[p], text) > 0}
    IN  IF found = {} THEN None
        ELSE LET at(p) == re_search(parser_time_patterns[p], text)
                 first == CHOOSE p \in found : \A q \in found :
                             at(p) < at(q) \/ (at(p) = at(q) /\ p <= q)
             IN  Some(FormatGroups(Groups(text, at(first),
                                          parser_time_patterns[first])))

\* mutant: the patterns tried from the last to the first
RECURSIVE ExtractBack(_, _)
ExtractBack(text, p) ==
    IF p < 1 THEN None
    ELSE LET i == re_search(parser_time_patterns[p], text)
         IN  IF i > 0
             THEN Some(FormatGroups(Groups(text, i, parser_time_patterns[p])))
             ELSE ExtractBack(text, p - 1)

extract_time_LastFirst(text) == ExtractBack(text, Len(parser_time_patterns))

\* _extract_time: for pattern in self.time_patterns, the first pattern
\* that matches anywhere decides
RECURSIVE ExtractFrom(_, _)
ExtractFrom(text, p) ==
    IF p > Len(parser_time_patterns) THEN None
    ELSE LET i == re_search(parser_time_patterns[p], text)
         IN  IF i > 0
             THEN Some(FormatGroups(Groups(text, i, parser_time_patterns[p])))
             ELSE ExtractFrom(text, p + 1)

extract_time(text) == ExtractFrom(text, 1)

\* _contains_clock_keywords
contains_clock_keywords(text) ==
    \E k \in 1..Len(clock_keywords) : Contains(text, clock_keywords[k])

\* the length of the match of \d{1,2}[:.]\d{2}([:.]\d{2})? at position i,
\* 0 when there is none
TimeLikeAt(text, i) ==
    LET rest(j) == /\ j + 2 <= Len(text)
                   /\ text[j] \in {58, 46}
                   /\ IsDigit(text[j + 1]) /\ IsDigit(text[j + 2])
        head == IF /\ i + 1 <= Len(text)
                   /\ IsDigit(text[i]) /\ IsDigit(text[i + 1])
                   /\ rest(i + 2)
                THEN 2
                ELSE IF IsDigit(text[i]) /\ rest(i + 1) THEN 1 ELSE 0
    IN  IF head = 0 THEN 0
        ELSE IF rest(i + head + 3) THEN head + 6 ELSE head + 3

\* re.sub(r"\d{1,2}[:.]\d{2}([:.]\d{2})?", "", text) from position i on
RECURSIVE SubTimes(_, _)
SubTimes(text, i) ==
    IF i > Len(text) THEN <<>>
    ELSE IF TimeLikeAt(text, i) > 0 THEN SubTimes(text, i + TimeLikeAt(text, i))
    ELSE <<text[i]>> \o SubTimes(text, i + 1)

\* the character class of the second re.sub, item by item as re reads it:
\* <<lo, hi>> is the range lo-hi, a single character is <<ch, ch>>
clock_class ==
    << <<287, 287>>, <<376, 376>>, <<8226, 287>>, <<376, 376>>, <<8226,
       8226>>, <<167, 167>>, <<226, 226>>, <<176, 176>>, <<226, 226>>,
       <<177, 177>>, <<226, 226>>, <<178, 178>>, <<287, 287>>, <<376,
       376>>, <<8221, 8221>>, <<8221, 8221>>, <<287, 287>>, <<376, 376>>,
       <<175, 175>>, <<226, 226>>, <<353, 353>>, <<161, 161>> >>

\* re.compile raises re.error ("bad character range") for a range lo-hi
\* with lo > hi
Compiles(class) == \A k \in 1..Len(class) : class[k][1] <= class[k][2]

InClass(ch, class) ==
    \E k \in 1..Len(class) : class[k][1] <= ch /\ ch <= class[k][2]

\* re.sub(r"\s+", " ", text) from position i on
RECURSIVE SubSpaces(_, _)
SubSpaces(text, i) ==
    IF i > Len(text) THEN <<>>
    ELSE IF text[i] \in Whitespace
    THEN IF i > 1 /\ text[i - 1] \in Whitespace THEN SubSpaces(text, i + 1)
         ELSE <<32>> \o SubSpaces(text, i + 1)
    ELSE <<text[i]>> \o SubSpaces(text, i + 1)

\* the text without its times, without the characters of the class, its
\* whitespace collapsed
Cleaned(text) ==
    Strip(SubSpaces(SelectSeq(Strip(SubTimes(text, 1)),
                              LAMBDA ch : ~InClass(ch, clock_class)), 1))

\* the phrase returned for a short description
Fallback ==
    <<286, 8217, 209, 8364, 286, 181, 286, 188, 209, 32, 286, 180,
       286, 190, 32, 286, 183, 286, 176, 286, 186, 286, 187, 209, 209,
       8225, 286, 181, 286, 189, 286, 184, 209, 32, 209, 286, 191, 286,
       190, 209, 8230, 286, 176, 286, 187, 209, 338, 286, 189, 286, 190,
       286, 179, 286, 190, 32, 209, 286, 190, 286, 179, 286, 187, 286,
       176, 209, 710, 286, 181, 286, 189, 286, 184, 209>>

\* what a call gives: the value it returns, or raised
Returns(value) == [raised |-> FALSE, value |-> value]
Raises == [raised |-> TRUE, value |-> None]

\* _extract_description
extract_description(text, time_str) ==
    IF ~Compiles(clock_class) THEN Raises
    ELSE IF Len(Cleaned(text)) < 10 THEN Returns(Fallback)
    ELSE Returns(Take(Cleaned(text), 200))

\* ClockData(time=time, description=description, raw_message=message_text)
ClockData(time, description, raw_message) ==
    [time |-> time, description |-> description, raw_message |-> raw_message]

\* parse_message
parse_message(message_text) ==
    IF message_text = <<>> THEN Returns(None)
    ELSE LET text == Strip(message_text)
             time == extract_time(text)
         IN  IF ~contains_clock_keywords(Lower(text)) THEN Returns(None)
             ELSE IF time = None THEN Returns(None)
             ELSE IF extract_description(text, Val(time)).raised THEN Raises
             ELSE Returns(Some(ClockData(Val(time),
                      extract_description(text, Val(time)).value, text)))

\* the pieces the texts handed to the parser are made of
Filler(n) == [k \in 1..n |-> 97 + (k % 7)]
Pieces ==
    { <<>>,
      <<32>>,                                  \* a space
      <<9, 32>>,                               \* a tab and a space
      <<286, 180, 286, 190>>,                  \* clock_keywords[9]
      <<287, 180, 287, 190>>,                  \* the same in lower case
      <<1076, 1086>>,                          \* Cyrillic de, o
      <<57, 58, 48, 53>>,                      \* 9:05
      <<49, 50, 58, 51, 48, 58, 52, 53>>,      \* 12:30:45
      <<55, 46, 49, 53>>,                      \* 7.15
      <<49, 46, 48, 50, 46, 48, 51>>,          \* 1.02.03
      <<1635, 58, 1636, 1637>>,                \* 3:45 in Arabic-Indic digits
      <<167>>,                                 \* a character of the class
      Filler(ShortLen),
      Filler(FillerLen) }

RECURSIVE TextsOf(_)
TextsOf(n) ==
    IF n = 0 THEN {<<>>}
    ELSE {piece \o text : piece \in Pieces, text \in TextsOf(n - 1)}

Texts == TextsOf(MaxPieces)

\* parser.parse_message(message_text)
ParseMessage ==
    /\ parsed.pc = "ready"
    /\ parsed' = [pc |-> "parsed", message_text |-> parsed.message_text,
                  raised |-> parse_message(parsed.message_text).raised,
                  value |-> parse_message(parsed.message_text).value]
    /\ UNCHANGED <<channel, store, calls, faults, loop, schema, proc>>

\* parser._extract_time(text)
ExtractTime ==
    /\ parsed.pc = "ready"
    /\ parsed' = [pc |-> "timed", message_text |-> parsed.message_text,
                  raised |-> FALSE,
                  value |-> extract_time(parsed.message_text)]
    /\ UNCHANGED <<channel, store, calls, faults, loop, schema, proc>>

\* parser._extract_description(text, time_str)
ExtractDescription ==
    /\ parsed.pc = "ready"
    /\ parsed' = [pc |-> "described", message_text |-> parsed.message_text,
                  raised |-> extract_description(parsed.message_text, <<>>).raised,
                  value |-> extract_description(parsed.message_text, <<>>).value]
    /\ UNCHANGED <<channel, store, calls, faults, loop, schema, proc>>

(***************************************************************************)
(* The start of the process.  run.py validates the configuration and then  *)
(* hands the application to uvicorn, whose startup runs the lifespan:      *)
(* create_tables() and run_migrations(); after it requests are served.     *)
(*   schema: whether clock_updates exists, its columns, the number of      *)
(*     migration runs and whether the last one raised                      *)
(*   proc: where the process is ("start", "validated", "tables",           *)
(*     "serving", "failed"), the credentials of its environment (None when *)
(*     the variable is not set), whether it ended by an exception, the     *)
(*     number of requests it served, whether its config object carries    *)
(*     TELEGRAM_2FA_PASSWORD, whether the Telegram client hands over the   *)
(*     messages of an iteration in one chunk                               *)
(***************************************************************************)
\* the table as a database written before image_data and updated_at were
\* declared holds it
OldColumns == {"id", "message_id", "content", "time_value", "created_at"}

\* the databases the process may find: none, or clock_updates with the
\* columns of one of the layouts
Schemas ==
    {[exists |-> FALSE, columns |-> {}, runs |-> 0, raised |-> FALSE]}
    \cup {[exists |-> TRUE, columns |-> columns, runs |-> 0, raised |-> FALSE] :
             columns \in {OldColumns, OldColumns \cup {"updated_at"},
                          OldColumns \cup {"image_data"}, ModelColumns}}

\* the environments: each credential not set, set to the empty string, set
Envs == [required_fields -> {None, Some(""), Some("set")}]

\* mutant: only a variable that is not set counts as missing
missing_fields_NoneOnly(env) == {field \in required_fields : env[field] = None}

\* Config.validate: the required fields without a value (not getattr)
missing_fields(env) ==
    {field \in required_fields : env[field] = None \/ Val(env[field]) = ""}

\* mutant: ALTER TABLE without looking for the column first
add_image_data_column_Unchecked(s) ==
    IF s.exists /\ "image_data" \notin s.columns
    THEN [s EXCEPT !.columns = @ \cup {"image_data"}, !.raised = FALSE]
    ELSE [s EXCEPT !.raised = TRUE]

\* add_image_data_column: pragma_table_info has a row for image_data when
\* the table has the column (and no row at all without the table); without
\* the row ALTER TABLE adds the column, and raises when there is no table
add_image_data_column(s) ==
    LET found == s.exists /\ "image_data" \in s.columns
    IN  IF ~found
        THEN IF s.exists
             THEN [s EXCEPT !.columns = @ \cup {"image_data"}, !.raised = FALSE]
             ELSE [s EXCEPT !.raised = TRUE]
        ELSE [s EXCEPT !.raised = FALSE]

\* main: config.validate()
validate ==
    /\ proc.pc = "start"
    /\ proc' = IF missing_fields(proc.env) # {}
               THEN [proc EXCEPT !.pc = "failed", !.raised = TRUE]
               ELSE [proc EXCEPT !.pc = "validated"]
    /\ UNCHANGED <<channel, store, calls, faults, loop, parsed, schema>>

\* main: uvicorn.run; lifespan: create_tables() creates the tables that do
\* not exist as the models declare them
create_tables ==
    /\ proc.pc = "validated"
    /\ proc' = [proc EXCEPT !.pc = "tables"]
    /\ schema' = IF schema.exists THEN schema
                 ELSE [schema EXCEPT !.exists = TRUE, !.columns = ModelColumns]
    /\ UNCHANGED <<channel, store, calls, faults, loop, parsed>>

\* lifespan: run_migrations(); an exception ends the startup
run_migrations ==
    /\ proc.pc = "tables"
    /\ schema' = [add_image_data_column(schema) EXCEPT !.runs = @ + 1]
    /\ proc' = IF schema'.raised
               THEN [proc EXCEPT !.pc = "failed", !.raised = TRUE]
               ELSE [proc EXCEPT !.pc = "serving"]
    /\ UNCHANGED <<channel, store, calls, faults, loop, parsed>>

\* the server handles a request
ServeRequest ==
    /\ proc.pc = "serving"
    /\ proc.served < MaxRequests
    /\ proc' = [proc EXCEPT !.served = @ + 1]
    /\ UNCHANGED <<channel, store, calls, faults, loop, parsed, schema>>

\* the process has ended and run.py is started again, in the same
\* environment and on the same database
StartAgain ==
    /\ proc.pc \in {"serving", "failed"}
    /\ schema.runs < MaxStarts
    /\ proc' = [proc EXCEPT !.pc = "start", !.raised = FALSE, !.served = 0]
    /\ UNCHANGED <<channel, store, calls, faults, loop, parsed, schema>>

(***************************************************************************)
(* The queries.  GET /api/clock/latest and GET /api/clock/history read     *)
(* the committed rows in their own session and have no await: each is one  *)
(* step.  ORDER BY created_at DESC leaves the order of rows with equal     *)
(* created_at open, so a query has a set of possible results.  A query     *)
(* takes a call slot: entry "latest" or "history", arg the limit, response *)
(* the answer.  Datetimes are day numbers, in the answer as in the store.  *)
(***************************************************************************)
\* the orders ORDER BY created_at DESC can deliver the rows in
RECURSIVE Newest_first(_)
Newest_first(rows) ==
    IF rows = {} THEN {<<>>}
    ELSE UNION {{<<r>> \o rest : rest \in Newest_first(rows \ {r})} :
                 r \in {x \in rows : \A y \in rows : y.created_at <= x.created_at}}

\* mutant: the oldest record first
get_latest_update_Oldest ==
    IF store = {} THEN {None}
    ELSE {Some(r) : r \in {x \in store : \A y \in store : x.created_at <= y.created_at}}

\* order_by(ClockUpdate.created_at.desc()).first(): the possible results
get_latest_update ==
    IF store = {} THEN {None}
    ELSE {Some(rows[1]) : rows \in Newest_first(store)}

\* order_by(ClockUpdate.created_at.desc()).limit(limit).all(); SQLite
\* applies no limit when it is negative
get_recent_updates(limit) ==
    {IF limit < 0 THEN rows ELSE Take(rows, limit) : rows \in Newest_first(store)}

\* db.query(ClockUpdate).count()
get_updates_count == Cardinality(store)

\* the JSON object of one record
UpdateBody(update) ==
    [id         |-> update.id,
     time       |-> update.time_value,
     content    |-> update.content,
     image_data |-> update.image_data,
     created_at |-> update.created_at,
     message_id |-> update.message_id]

\* GET /api/clock/latest
get_latest_clock(c) ==
    /\ CanStart(c)
    /\ \E latest_update \in get_latest_update :
          calls' = [calls EXCEPT ![c] =
             [IdleCall EXCEPT !.pc = "done", !.entry = "latest",
                 !.response = IF latest_update = None THEN <<404>>
                              ELSE <<200, UpdateBody(Val(latest_update))>>]]
    /\ UNCHANGED <<channel, store, faults, loop, parsed, schema, proc>>

\* GET /api/clock/history?limit=
get_clock_history(c, limit) ==
    /\ CanStart(c)
    /\ \E updates \in get_recent_updates(limit) :
          calls' = [calls EXCEPT ![c] =
             [IdleCall EXCEPT !.pc = "done", !.entry = "history",
                 !.arg = Some(limit),
                 !.response = <<200,
                     [updates     |-> [k \in 1..Len(updates) |-> UpdateBody(updates[k])],
                      total_count |-> get_updates_count,
                      limit       |-> limit]>>]]
    /\ UNCHANGED <<channel, store, faults, loop, parsed, schema, proc>>

(***************************************************************************)
(* Specifications: Spec, the bounded fetches and the reloads over the      *)
(* short channels; SpecSince, the windowed fetches over them with both     *)
(* kinds of client; SpecLong, the windowed fetches over the long channel   *)
(* by two requesters.                                                      *)
(***************************************************************************)
Init ==
    /\ channel \in Channels
    /\ store = {}
    /\ calls = [c \in Calls |-> IdleCall]
    /\ faults = 0
    /\ loop = LoopOff
    /\ parsed = NotParsed
    /\ schema = Migrated
    /\ proc \in Configured

InitLong ==
    /\ channel = LongChannel
    /\ store = {}
    /\ calls = [c \in Calls |-> IdleCall]
    /\ faults = 0
    /\ loop = LoopOff
    /\ parsed = NotParsed
    /\ schema = Migrated
    /\ proc \in Configured

Next ==
    \E c \in Calls :
       \/ StartFetch(c)
       \/ \E message_id \in ReloadIds : StartReload(c, message_id)
       \/ Connect(c)
       \/ ConnectFails(c)
       \/ Retrieve(c)
       \/ Download(c)
       \/ TryRaises(c)
       \/ Disconnect(c)
       \/ DisconnectFails(c)

Spec == Init /\ [][Next]_vars

\* windowed fetches with and without the default window
NextSince ==
    \E c \in Calls :
       \/ \E days \in DaysArgs : StartSince(c, days)
       \/ CallStep(c)

\* every short channel, with either kind of client
InitSince ==
    /\ channel \in Channels \cup {ChTie}
    /\ store = {}
    /\ calls = [c \in Calls |-> IdleCall]
    /\ faults = 0
    /\ loop = LoopOff
    /\ parsed = NotParsed
    /\ schema = Migrated
    /\ proc \in Clients

SpecSince == InitSince /\ [][NextSince]_vars

\* the long channel is there for the flush; two requesters fetch it
NextLong ==
    \E c \in {1, 2} :
       \/ \E days \in DaysArgs : StartSince(c, days)
       \/ CallStep(c)

SpecLong == InitLong /\ [][NextLong]_vars

\* the background loop and manual fetches over one channel.  The event
\* loop runs a task that can run, an await returns or raises in the end,
\* and a sleep ends: weak fairness of the steps of every call and of the
\* task.  Requests, start() and stop() may or may not come; the manual
\* fetches are those of one requester beside the loop's own call.
ManualCalls == {1}

InitLoop ==
    /\ channel = ChTwo
    /\ store = {}
    /\ calls = [c \in Calls |-> IdleCall]
    /\ faults = 0
    /\ loop = LoopOff
    /\ parsed = NotParsed
    /\ schema = Migrated
    /\ proc \in Configured

NextLoop ==
    \/ start
    \/ stop
    \/ TaskBegins
    \/ TaskCancelled
    \/ CycleStep
    \/ CycleEnds
    \/ NextCycle
    \/ \E c \in ManualCalls : StartFetch(c)
    \/ \E c \in ManualCalls : CallStep(c)

SpecLoop ==
    /\ InitLoop
    /\ [][NextLoop]_vars
    /\ WF_vars(TaskBegins)
    /\ WF_vars(TaskCancelled)
    /\ WF_vars(CycleStep)
    /\ WF_vars(CycleEnds)
    /\ WF_vars(NextCycle)
    /\ \A c \in ManualCalls : WF_vars(CallStep(c))

\* windowed fetches alone, over every kind of days argument
InitWindow ==
    /\ channel = ChSix
    /\ store = {}
    /\ calls = [c \in Calls |-> IdleCall]
    /\ faults = 0
    /\ loop = LoopOff
    /\ parsed = NotParsed
    /\ schema = Migrated
    /\ proc \in Configured

NextWindow ==
    \E c \in Calls :
       \/ \E days \in WindowDays : StartSince(c, days)
       \/ CallStep(c)

SpecWindow == InitWindow /\ [][NextWindow]_vars

\* the process from its start, in every environment and on every database
InitStartup ==
    /\ channel = ChTwo
    /\ store = {}
    /\ calls = [c \in Calls |-> IdleCall]
    /\ faults = 0
    /\ loop = LoopOff
    /\ parsed = NotParsed
    /\ schema \in Schemas
    /\ proc \in {[pc |-> "start", env |-> env, raised |-> FALSE, served |-> 0,
                  two_fa |-> FALSE, chunked |-> TRUE] : env \in Envs}

NextStartup ==
    \/ validate
    \/ create_tables
    \/ run_migrations
    \/ ServeRequest
    \/ StartAgain

SpecStartup == InitStartup /\ [][NextStartup]_vars

\* the background service alone: start() and stop() come at any time
InitTask ==
    /\ channel = ChTwo
    /\ store = {}
    /\ calls = [c \in Calls |-> IdleCall]
    /\ faults = 0
    /\ loop = LoopOff
    /\ parsed = NotParsed
    /\ schema = Migrated
    /\ proc \in Configured

NextTask ==
    \/ start
    \/ stop
    \/ TaskBegins
    \/ TaskCancelled
    \/ CycleStep
    \/ CycleEnds
    \/ NextCycle

SpecTask == InitTask /\ [][NextTask]_vars

\* the background service with start_periodic_updates() also awaited
\* directly
NextDirect ==
    \/ start
    \/ stop
    \/ TaskBegins
    \/ TaskCancelled
    \/ CycleStep
    \/ CycleEnds
    \/ NextCycle
    \/ CallDirect
    \/ DirectStep
    \/ DirectCycleEnds
    \/ DirectNextCycle

SpecDirect == InitTask /\ [][NextDirect]_vars

\* the same with the event loop running the task whenever it can run;
\* start() and stop() come when their callers like
SpecTaskFair ==
    /\ InitTask
    /\ [][NextTask]_vars
    /\ WF_vars(TaskBegins)
    /\ WF_vars(TaskCancelled)
    /\ WF_vars(CycleStep)
    /\ WF_vars(CycleEnds)
    /\ WF_vars(NextCycle)

\* the parser over the texts
InitParser ==
    /\ channel = ChTwo
    /\ store = {}
    /\ calls = [c \in Calls |-> IdleCall]
    /\ faults = 0
    /\ loop = LoopOff
    /\ parsed \in {[pc |-> "ready", message_text |-> text,
                     raised |-> FALSE, value |-> None] : text \in Texts}
    /\ schema = Migrated
    /\ proc = Serving

NextParser == ParseMessage \/ ExtractTime \/ ExtractDescription

SpecParser == InitParser /\ [][NextParser]_vars

\* fetches and queries over one store, without environment failures
InitQuery ==
    /\ channel \in {ChSix, ChTie}
    /\ store = {}
    /\ calls = [c \in Calls |-> IdleCall]
    /\ faults = 0
    /\ loop = LoopOff
    /\ parsed = NotParsed
    /\ schema = Migrated
    /\ proc \in Clients

NextQuery ==
    \E c \in Calls :
       \/ StartFetch(c)
       \/ \E days \in DaysArgs : StartSince(c, days)
       \/ Connect(c)
       \/ Retrieve(c)
       \/ Download(c)
       \/ Disconnect(c)
       \/ get_latest_clock(c)
       \/ \E limit \in Limits : get_clock_history(c, limit)

SpecQuery == InitQuery /\ [][NextQuery]_vars

(***************************************************************************)
(* Properties.                                                             *)
(***************************************************************************)
Started(c) == calls[c].pc # "idle"
Ended(c) == calls[c].pc = "done"
InProgress(c) == Started(c) /\ ~Ended(c)
\* the call entered its fetch (a reload that failed in its deletion did not)
Fetched(c) == Started(c) /\ ~(calls[c].entry = "reload" /\ Ended(c)
                               /\ ~calls[c].raised /\ calls[c].result = None)
RowsOf(message_id) == {r \in store : r.message_id = message_id}

\* C1: in every reachable state no two stored rows have the same message_id
C1_UniqueMessageId ==
    \A r1, r2 \in store : r1.message_id = r2.message_id => r1 = r2

\* two calls staged the same new message: one committed it, the other hit
\* the constraint and rolled back, without any environment failure
C1_Witness ==
    /\ faults = 0
    /\ \E c, d \in Calls :
          /\ Ended(c) /\ Ended(d)
          /\ calls[c].added # {}
          /\ calls[d].errored
          /\ \E i \in 1..Len(calls[d].msgs) :
                RowsOf(calls[d].msgs[i].id) # {}

\* a bounded fetch that retrieved the limit newest messages and committed
CleanFetch(c) ==
    /\ calls[c].entry = "fetch"
    /\ Ended(c)
    /\ calls[c].committed
    /\ calls[c].msgs = Take(channel, FetchLimit)

\* C2: once a bounded fetch has run to its commit over the channel and
\* has ended, and nothing else is running, the next bounded fetch stores
\* nothing: none of its steps up to its commit changes the store, and the
\* value it leaves its try block with is 0
C2_SecondFetchStoresNothing ==
    [][\A c \in Calls :
          ( /\ c > 1
            /\ CleanFetch(c - 1)
            /\ calls[c].entry = "fetch"
            /\ calls[c].pc \in {"connect", "retrieve", "download"}
            /\ \A d \in Calls : d < c => Ended(d)
            /\ \A d \in Calls : d > c => ~Started(d)
            /\ calls'[c] # calls[c] )
          => /\ store' = store
             /\ calls'[c].added = {}
             /\ calls'[c].result \in {None, Some(0)}]_vars

\* the first bounded fetch stored records, the second one ran after it,
\* committed and answered with a count of 0
C2_Witness ==
    /\ MaxCalls >= 2
    /\ CleanFetch(1)
    /\ calls[1].added # {}
    /\ calls[2].entry = "fetch"
    /\ Ended(2)
    /\ calls[2].committed
    /\ calls[2].msgs = calls[1].msgs
    /\ calls[2].response = <<200, 0>>
    /\ store # {}

\* the message ids msgs holds twice, both times with text
TwiceInBatch(msgs) ==
    {msgs[i].id : i \in {k \in 1..Len(msgs) :
        /\ msgs[k].text # <<>>
        /\ \E j \in 1..Len(msgs) :
              j # k /\ msgs[j].id = msgs[k].id /\ msgs[j].text # <<>>}}

\* C3: when one fetch, running alone over an empty store and without any
\* environment failure, has handled two text messages with the same
\* message_id, exactly one row with that message_id is stored
C3_OneRecordForBatchDuplicate ==
    \A c \in Calls :
       ( /\ Ended(c)
         /\ faults = 0
         /\ calls[c].entry \in {"fetch", "since"}
         /\ \A d \in Calls : d # c => ~Started(d) )
       => \A message_id \in TwiceInBatch(calls[c].msgs) :
             Cardinality(RowsOf(message_id)) = 1

\* the message ids whose existence check the call has passed and whose
\* records it holds uncommitted
Passed(call) ==
    {call.pending[k].message_id : k \in 1..Len(call.pending)}
    \cup {r.message_id : r \in call.flushed}
    \cup (IF call.pc = "download" THEN {Current(call).id} ELSE {})

\* C4: no two running calls have both passed the existence check for the
\* same message_id while neither has committed
C4_NoDoublePass ==
    \A c, d \in Calls :
       ( /\ c # d
         /\ InProgress(c) /\ InProgress(d)
         /\ ~calls[c].committed /\ ~calls[d].committed )
       => Passed(calls[c]) \cap Passed(calls[d]) = {}

\* C5: a fetch that met an error inside its try block has committed
\* nothing: the step that meets the error leaves the store as it was, the
\* session keeps no staged or flushed record, and the fetch returns 0
C5_ErrorRollsBackBatch ==
    [][\A c \in Calls :
          calls'[c].errored =>
             /\ calls'[c].added = {}
             /\ ~calls'[c].committed
             /\ calls'[c].pending = <<>>
             /\ calls'[c].flushed = {}
             /\ calls'[c] # calls[c] => store' = store
             /\ calls'[c].pc = "disconnect" => calls'[c].result = Some(0)
             /\ (Ended(c)' /\ ~calls'[c].raised) => calls'[c].result = Some(0)]_vars

\* a windowed fetch met an error after it had flushed FlushEvery records,
\* ended with 0, and none of them is stored
C5_Witness ==
    \E c \in Calls :
       /\ calls[c].entry = "since"
       /\ calls[c].errored
       /\ Ended(c)
       /\ calls[c].count >= FlushEvery
       /\ calls[c].result = Some(0)
       /\ store = {}

\* C6: the rows a windowed fetch has flushed and not yet committed are not
\* in the store and are not seen by the queries of any other session
C6_FlushedNotVisible ==
    \A c \in Calls :
       (calls[c].entry = "since" /\ ~calls[c].committed) =>
          \A r \in calls[c].flushed :
             /\ r \notin store
             /\ \A d \in Calls : d # c => r \notin Visible(calls[d])

\* a windowed fetch is suspended after its flush of FlushEvery rows, while
\* another call has run against the store and the store is still empty
C6_Witness ==
    \E c, d \in Calls :
       /\ c # d
       /\ calls[c].entry = "since"
       /\ calls[c].pc = "download"
       /\ Cardinality(calls[c].flushed) = FlushEvery
       /\ calls[d].msgs # <<>>
       /\ store = {}

\* C7 as stated: every fetch that has ended has called disconnect exactly
\* once
C7_DisconnectAlways ==
    \A c \in Calls : (Ended(c) /\ Fetched(c)) => calls[c].disc = 1

\* C7: a fetch whose connect succeeded calls disconnect exactly once, at
\* its end, whatever happened inside its try block; a fetch whose connect
\* raised ends without calling disconnect
C7_DisconnectOnceAfterConnect ==
    \A c \in Calls :
       /\ ~Ended(c) => calls[c].disc = 0
       /\ (Ended(c) /\ Fetched(c)) =>
             calls[c].disc = (IF calls[c].connected THEN 1 ELSE 0)

\* one fetch met an error inside its try block and disconnected once,
\* another one raised in connect and did not disconnect
C7_Witness ==
    \E c, d \in Calls :
       /\ Ended(c) /\ calls[c].errored /\ calls[c].disc = 1
       /\ Ended(d) /\ Fetched(d) /\ ~calls[d].connected
       /\ calls[d].raised /\ calls[d].disc = 0

\* C8: a fetch that met an exception inside its try block leaves the
\* except block with the return value 0, no exception and nothing
\* committed; unless its disconnect raises, its caller gets 0
C8_ExceptionNotPropagated ==
    \A c \in Calls :
       calls[c].errored =>
          /\ calls[c].pc \in {"disconnect", "done"}
          /\ calls[c].added = {}
          /\ calls[c].pc = "disconnect" =>
                ~calls[c].raised /\ calls[c].result = Some(0)
          /\ (Ended(c) /\ ~calls[c].raised) =>
                /\ calls[c].result = Some(0)
                /\ calls[c].response =
                      (IF calls[c].entry = "since" THEN None ELSE <<200, 0>>)

\* an exception was raised while a bounded fetch was suspended in the
\* download of a photo, and the endpoint answered with a count of 0
C8_Witness ==
    \E c \in Calls :
       /\ calls[c].entry = "fetch"
       /\ calls[c].errored
       /\ faults > 0
       /\ calls[c].idx >= 1
       /\ Ended(c)
       /\ calls[c].response = <<200, 0>>

\* C9: the fetch endpoint answers 500 exactly when the bounded fetch
\* raised; otherwise it answers 200 with the count the fetch returned,
\* which is the number of records staged, or 0 after an error
C9_ServerErrorIffRaised ==
    \A c \in Calls :
       (calls[c].entry = "fetch" /\ Ended(c)) =>
          /\ calls[c].response = <<500>> <=> calls[c].raised
          /\ ~calls[c].raised =>
                /\ calls[c].result =
                      Some(IF calls[c].errored THEN 0 ELSE calls[c].count)
                /\ calls[c].response = <<200, Val(calls[c].result)>>

\* one fetch endpoint call answered 200 with a count of 0, another 500
C9_Witness ==
    \E c, d \in Calls :
       /\ calls[c].entry = "fetch" /\ calls[c].response = <<200, 0>>
       /\ calls[d].entry = "fetch" /\ calls[d].response = <<500>>

\* C10: a fetch endpoint call that answered 500 has committed no record
C10_ServerErrorCommittedNothing ==
    \A c \in Calls :
       (calls[c].entry = "fetch" /\ calls[c].response = <<500>>) =>
          calls[c].added = {}

\* C11: a reload of a stored message_id that goes on to its fetch has
\* removed the row first: the store holds no row with that message_id when
\* the fetch is invoked, and holds none afterwards until some call commits,
\* whether the refetch fails, finds nothing or re-admits the message
C11_ReloadDeletesBeforeRefetch ==
    [][\A c \in Calls :
          /\ ( /\ ~Started(c)
               /\ calls'[c].entry = "reload"
               /\ calls'[c].pc = "connect" )
             => {r \in store' : r.message_id = Val(calls'[c].arg)} = {}
          /\ ( /\ calls[c].entry = "reload"
               /\ Fetched(c)
               /\ RowsOf(Val(calls[c].arg)) = {}
               /\ \A d \in Calls : calls'[d].committed = calls[d].committed )
             => {r \in store' : r.message_id = Val(calls'[c].arg)} = {}]_vars

\* a fetch stored the message, a reload of it deleted the row, its refetch
\* found no message and answered with a count of 0: the row is gone
C11_Witness ==
    \E c, d \in Calls :
       /\ calls[c].entry = "reload"
       /\ Ended(c)
       /\ calls[c].msgs = <<>>
       /\ calls[c].response = <<200, 0>>
       /\ RowsOf(Val(calls[c].arg)) = {}
       /\ d < c
       /\ Ended(d)
       /\ calls[d].added # {}
       /\ \E i \in 1..Len(calls[d].msgs) :
             /\ calls[d].msgs[i].id = Val(calls[c].arg)
             /\ calls[d].msgs[i].text # <<>>
       /\ store # {}

\* the position of the first message the cutoff stops at (Len + 1: none)
FirstOld(min_date) ==
    LET old == {i \in 1..Len(channel) :
                   /\ channel[i].date # None
                   /\ ~Naive(channel[i].date)
                   /\ Val(channel[i].date) < Val(min_date)}
    IN  IF old = {} THEN Len(channel) + 1
        ELSE CHOOSE i \in old : \A j \in old : i <= j

Yielded(c, message) == \E k \in 1..Len(calls[c].msgs) : calls[c].msgs[k] = message

\* the call met an exception while it was handling message msgs[idx]
FailedAtMessage(c) ==
    /\ calls[c].errored
    /\ calls[c].idx >= 1
    /\ calls[c].idx <= Len(Source(calls[c]))
    /\ Yielded(c, Current(calls[c]))

\* C12 as stated: when a fetch fails while it handles one message, the
\* other messages of the batch that have text are stored all the same
C12_OnlyFailedMessageSkipped ==
    \A c \in Calls :
       (Ended(c) /\ FailedAtMessage(c)) =>
          \A k \in 1..Len(calls[c].msgs) :
             ( /\ calls[c].msgs[k] # Current(calls[c])
               /\ calls[c].msgs[k].text # <<>> ) =>
                RowsOf(calls[c].msgs[k].id) # {}

\* C12: a message that fails inside the gateway's iteration (its date
\* cannot be compared with the cutoff) is skipped and the iteration goes
\* on to the messages after it (of the messages before the cutoff, the
\* fetch is handed none that fails and, once it has a later one or has
\* committed, every one that does not fail); an exception while the pipeline handles a
\* message ends the whole batch instead: nothing of it is committed and the
\* value returned is 0
C12_SkipInGatewayAbortInPipeline ==
    \A c \in Calls :
       /\ ( /\ calls[c].entry = "since"
            /\ calls[c].idx >= 1
            /\ MinDate(calls[c].arg) # None )
          => \A i \in 1..(FirstOld(MinDate(calls[c].arg)) - 1) :
                /\ Yielded(c, channel[i]) =>
                      ~(channel[i].date # None /\ Naive(channel[i].date))
                /\ ( /\ ~(channel[i].date # None /\ Naive(channel[i].date))
                     /\ \/ calls[c].committed
                        \/ \E j \in (i + 1)..Len(channel) :
                              Yielded(c, channel[j]) )
                   => Yielded(c, channel[i])
       /\ FailedAtMessage(c) =>
             /\ calls[c].added = {}
             /\ ~calls[c].committed
             /\ calls[c].result \in {None, Some(0)}
             /\ calls[c].pc \in {"disconnect", "done"}

\* a windowed fetch with a cutoff skipped the message with the naive date,
\* went on and stored the message after it; another call met an exception
\* while it handled a message, after it had staged others
C12_Witness ==
    \E c, d \in Calls :
       /\ calls[c].entry = "since"
       /\ MinDate(calls[c].arg) # None
       /\ Ended(c)
       /\ calls[c].msgs # <<>>
       /\ \E i \in 1..(FirstOld(MinDate(calls[c].arg)) - 1) : ~Yielded(c, channel[i])
       /\ calls[c].added # {}
       /\ Ended(d)
       /\ FailedAtMessage(d)
       /\ calls[d].count >= 1

\* the cycle of the background loop has ended by raising
CycleRaised ==
    /\ loop.pc = "cycle"
    /\ calls[LoopCall].pc = "done"
    /\ calls[LoopCall].raised

\* the cycle raised before its first await (connect() on a configuration
\* without the password attribute) and the loop is in its backoff at the
\* end of the step that began the cycle
RaisedAtOnce ==
    /\ ~proc.two_fa
    /\ loop.pc = "backoff"
    /\ calls[LoopCall].entry = "cycle"
    /\ Ended(LoopCall)
    /\ calls[LoopCall].raised

\* C13: after a cycle that raised, the loop goes into its backoff and from
\* there into another cycle, unless the service is stopped; it never goes
\* from such a cycle to the next one without the backoff.  Another cycle
\* is a fetch in progress, or one that raised at once and has the loop in
\* its backoff again.
C13_LoopSurvivesFailedCycle ==
    /\ [](CycleRaised => <>(loop.pc = "backoff" \/ ~loop.is_running))
    /\ [](loop.pc = "backoff" =>
             <>(\/ loop.pc = "cycle" /\ InProgress(LoopCall)
                \/ RaisedAtOnce
                \/ ~loop.is_running))
    /\ [][CycleRaised => loop'.pc \in {"cycle", "backoff", "stopped"}]_vars

\* the loop is in its backoff after a cycle that raised
C13_Witness ==
    /\ loop.pc = "backoff"
    /\ loop.is_running
    /\ calls[LoopCall].raised
    /\ Ended(LoopCall)

\* a manual fetch and a cycle of the background loop are both running
Concurrent(c) ==
    /\ calls[c].entry = "fetch"
    /\ InProgress(c)
    /\ calls[LoopCall].entry = "cycle"
    /\ InProgress(LoopCall)

\* C14: whenever a manual fetch and a cycle of the background loop run at
\* the same time, the manual fetch ends and the cycle ends
C14_BothTerminate ==
    /\ \A c \in ManualCalls : [](Concurrent(c) => <>Ended(c))
    /\ []((\E c \in ManualCalls : Concurrent(c)) => <>Ended(LoopCall))

\* a manual fetch and a cycle are both suspended in the download of the
\* same photo
C14_Witness ==
    \E c \in ManualCalls :
       /\ Concurrent(c)
       /\ calls[c].pc = "download"
       /\ calls[LoopCall].pc = "download"
       /\ loop.pc = "cycle"

\* the call ended after its commit was refused, without any environment
\* failure and without a message twice in its own batch: another call
\* had stored one of the messages it staged
HitConstraint(c) ==
    /\ calls[c].entry \in {"fetch", "since"}
    /\ Ended(c)
    /\ calls[c].errored
    /\ faults = 0
    /\ TwiceInBatch(calls[c].msgs) = {}

\* C15: when a call's commit hit the uniqueness constraint because another
\* call had stored one of its messages, the call's other new messages are
\* stored all the same: every text message of its batch has a row
C15_ConstraintHitSkipsOnlyThatMessage ==
    \A c \in Calls :
       HitConstraint(c)
       => \A i \in 1..Len(calls[c].msgs) :
             calls[c].msgs[i].text # <<>> => RowsOf(calls[c].msgs[i].id) # {}

\* C16: no row, committed, flushed or staged, has empty content, and a
\* channel message without text has no row unless a message with text
\* carries the same message_id
C16_NoRecordWithoutText ==
    /\ \A r \in store : r.content # <<>>
    /\ \A c \in Calls :
          /\ \A r \in calls[c].flushed : r.content # <<>>
          /\ \A k \in 1..Len(calls[c].pending) :
                calls[c].pending[k].content # <<>>
    /\ \A i \in 1..Len(channel) :
          ( /\ channel[i].text = <<>>
            /\ \A j \in 1..Len(channel) :
                  channel[j].id = channel[i].id => channel[j].text = <<>> )
          => RowsOf(channel[i].id) = {}

\* a fetch whose batch held a message without text has committed the
\* batch's other message
C16_Witness ==
    \E c \in Calls :
       /\ Ended(c)
       /\ calls[c].committed
       /\ calls[c].added # {}
       /\ \E i \in 1..Len(calls[c].msgs) :
             /\ calls[c].msgs[i].text = <<>>
             /\ RowsOf(calls[c].msgs[i].id) = {}
       /\ \E i \in 1..Len(calls[c].msgs) :
             RowsOf(calls[c].msgs[i].id) # {}

\* the windowed fetch c has received what iter_channel_messages yielded
Iterated(c) == calls[c].entry = "since" /\ calls[c].idx >= 1

\* C17: of a windowed fetch with a cutoff, no yielded message is dated
\* before min_date and every yielded message stands in the channel before
\* the first message dated before min_date; without a cutoff the yielded
\* messages are the channel from its newest message on, and the whole
\* channel once the iteration has ended and the fetch has committed
C17_CutoffStopsIteration ==
    \A c \in Calls :
       Iterated(c) =>
          IF MinDate(calls[c].arg) = None
          THEN /\ Len(calls[c].msgs) <= Len(channel)
               /\ calls[c].msgs = SubSeq(channel, 1, Len(calls[c].msgs))
               /\ calls[c].committed => calls[c].msgs = channel
          ELSE \A k \in 1..Len(calls[c].msgs) :
                  /\ ( /\ calls[c].msgs[k].date # None
                       /\ ~Naive(calls[c].msgs[k].date) )
                     => Val(calls[c].msgs[k].date) >= Val(MinDate(calls[c].arg))
                  /\ \E i \in 1..(FirstOld(MinDate(calls[c].arg)) - 1) :
                        channel[i] = calls[c].msgs[k]

\* one windowed fetch stopped at a message older than its cutoff that has
\* newer messages after it, another one without cutoff got the whole channel
C17_Witness ==
    \E c, d \in Calls :
       /\ Iterated(c) /\ Iterated(d)
       /\ MinDate(calls[c].arg) # None
       /\ calls[c].committed
       /\ calls[c].msgs # <<>>
       /\ FirstOld(MinDate(calls[c].arg)) < Len(channel)
       /\ Val(channel[Len(channel)].date) >= Val(MinDate(calls[c].arg))
       /\ MinDate(calls[d].arg) = None
       /\ calls[d].msgs = channel

\* call c is suspended in a download and no other call has started
DownloadsAlone(c) ==
    /\ calls[c].pc = "download"
    /\ TwiceInBatch(calls[c].msgs) = {}
    /\ \A d \in Calls : d # c => ~Started(d)

\* the record of message with image_data None is staged by call or stored
HeldWithoutImage(call, rows, message) ==
    \/ \E k \in 1..Len(call.pending) :
          /\ call.pending[k].message_id = message.id
          /\ call.pending[k].image_data = None
    \/ \E r \in rows \cup call.flushed :
          r.message_id = message.id /\ r.image_data = None

\* the step in which the download call c is suspended in fails, and no
\* store call does
DownloadFailed(c) ==
    /\ calls[c].pc = "download"
    /\ faults' = faults + 1
    /\ \E ran \in {RunLoop(c, Downloaded(c, calls[c], FALSE, -1))} :
          Proceed(c, ran)

\* C18: when the download of a message's photo fails in a fetch that runs
\* alone, the fetch goes on past the message without entering its except
\* block, and the message's record is staged or stored with image_data None
C18_ImageFailureGivesNoImage ==
    [][\A c \in Calls :
          ( /\ DownloadsAlone(c)
            /\ DownloadFailed(c) )
          => /\ ~calls'[c].errored
             /\ ~calls'[c].raised
             /\ HeldWithoutImage(calls'[c], store',
                                 Current(calls[c]))]_vars

\* a fetch whose download failed has ended with a 200 answer and the
\* photo message's row is stored with image_data None
C18_Witness ==
    \E c \in Calls :
       /\ Ended(c)
       /\ calls[c].entry = "fetch"
       /\ calls[c].committed
       /\ faults = 1
       /\ \A d \in Calls : d # c => ~Started(d)
       /\ \E i \in 1..Len(calls[c].msgs) :
             /\ calls[c].msgs[i].media = "photo"
             /\ \E r \in RowsOf(calls[c].msgs[i].id) :
                   r.id \in calls[c].added /\ r.image_data = None
       /\ calls[c].response = <<200, Len(calls[c].msgs)>>

\* call c is a query that answers in this step
Queries(c, entry) == calls[c].pc = "idle" /\ calls'[c].entry = entry

\* C19: a latest query answers 404 exactly when the store is empty, and
\* otherwise with a stored record than which none has a greater created_at
C19_LatestIsNewestOr404 ==
    [][\A c \in Calls :
          Queries(c, "latest")
          => /\ calls'[c].response = <<404>> <=> store = {}
             /\ store # {}
                => \E r \in store :
                      /\ calls'[c].response = <<200, UpdateBody(r)>>
                      /\ \A y \in store : y.created_at <= r.created_at]_vars

\* a latest query was answered with the newest of several stored records
C19_Witness ==
    \E c \in Calls :
       /\ calls[c].entry = "latest"
       /\ Cardinality(store) >= 3
       /\ \E r \in store :
             /\ calls[c].response = <<200, UpdateBody(r)>>
             /\ \A y \in store : y # r => y.created_at < r.created_at

Min(a, b) == IF a <= b THEN a ELSE b

\* C20: a history query with limit L over n >= 1 stored records answers
\* with exactly min(L, n) records, the newest ones, newest first, and with
\* a total count of n
C20_HistoryReturnsMinOfLimitAndCount ==
    [][\A c \in Calls :
          (Queries(c, "history") /\ store # {})
          => \E updates \in {calls'[c].response[2].updates} :
                /\ \A k \in 1..Len(updates) :
                      updates[k] \in {UpdateBody(r) : r \in store}
                /\ Len(updates) = Min(Val(calls'[c].arg), Cardinality(store))
                /\ \A j, k \in 1..Len(updates) :
                      j < k => /\ updates[j] # updates[k]
                               /\ updates[j].created_at >= updates[k].created_at
                /\ \A k \in 1..Len(updates) :
                      \A r \in store :
                         (\A j \in 1..Len(updates) : updates[j] # UpdateBody(r))
                         => r.created_at <= updates[k].created_at
                /\ calls'[c].response[2].total_count = Cardinality(store)]_vars

\* the text holds something but whitespace
NotBlank(text) == \E k \in 1..Len(text) : text[k] \notin Whitespace

\* the text holds a keyword, upper and lower case taken as the same
HasKeyword(text) ==
    \E k \in 1..Len(clock_keywords) :
       Contains(Lower(text), Lower(clock_keywords[k]))

\* the text holds a match of one of the four time patterns
HasTimePattern(text) ==
    \E i \in 1..Len(text) : \E p \in 1..Len(parser_time_patterns) :
       HeadAt(text, i, parser_time_patterns[p]) > 0

\* parse_message has returned a ClockData
GaveResult == parsed.pc = "parsed" /\ ~parsed.raised /\ parsed.value # None

\* C21: parse_message returns a result exactly when the text is not blank,
\* holds a keyword in whatever case and holds a supported time pattern
C21_ResultIffKeywordAndTime ==
    parsed.pc = "parsed"
    => (GaveResult <=> /\ NotBlank(parsed.message_text)
                       /\ HasKeyword(parsed.message_text)
                       /\ HasTimePattern(parsed.message_text))

\* time is HH:MM:SS: three fields of two ASCII digits each
WellFormedTime(time) ==
    /\ Len(time) = 8
    /\ time[3] = 58 /\ time[6] = 58
    /\ \A k \in {1, 2, 4, 5, 7, 8} : time[k] \in 48..57

\* the text holds a time with a seconds field
HasSeconds(text) ==
    \E i \in 1..Len(text) : \E p \in {1, 3} :
       HeadAt(text, i, parser_time_patterns[p]) > 0

\* C22: for a text that holds a keyword and a supported time pattern,
\* parse_message returns a result whose time is HH:MM:SS with two-digit
\* fields, the seconds being 00 when the text holds no seconds field
C22_TimeIsZeroPaddedTriple ==
    ( /\ parsed.pc = "parsed"
      /\ HasKeyword(parsed.message_text)
      /\ HasTimePattern(parsed.message_text) )
    => /\ GaveResult
       /\ WellFormedTime(Val(parsed.value).time)
       /\ ~HasSeconds(parsed.message_text)
          => SubSeq(Val(parsed.value).time, 7, 8) = <<48, 48>>

\* where the time-like substrings of the text start, read from the left
\* and not overlapping
RECURSIVE TimeStarts(_, _)
TimeStarts(text, i) ==
    IF i > Len(text) THEN {}
    ELSE IF TimeLikeAt(text, i) > 0
    THEN {i} \cup TimeStarts(text, i + TimeLikeAt(text, i))
    ELSE TimeStarts(text, i + 1)

\* _extract_time was handed a text with more than one time-like substring
SeveralTimes ==
    /\ parsed.pc = "timed"
    /\ Cardinality(TimeStarts(parsed.message_text, 1)) >= 2

\* C23 as stated: of several time-like substrings the leftmost one is
\* extracted, whatever its format
C23_LeftmostTimeWins ==
    SeveralTimes => parsed.value = extract_time_Leftmost(parsed.message_text)

\* C23: of several time-like substrings the one extracted is the leftmost
\* match of the first pattern, in the order HH:MM:SS, HH:MM, HH.MM.SS,
\* HH.MM, that matches anywhere in the text
C23_FirstPatternThenLeftmost ==
    SeveralTimes
    => \E p \in 1..Len(parser_time_patterns) :
          /\ \A q \in 1..(p - 1) : \A i \in 1..Len(parsed.message_text) :
                HeadAt(parsed.message_text, i, parser_time_patterns[q]) = 0
          /\ \E i \in 1..Len(parsed.message_text) :
                /\ HeadAt(parsed.message_text, i, parser_time_patterns[p]) > 0
                /\ \A j \in 1..(i - 1) :
                      HeadAt(parsed.message_text, j, parser_time_patterns[p]) = 0
                /\ parsed.value = Some(FormatGroups(Groups(parsed.message_text,
                                           i, parser_time_patterns[p])))

\* the text starts with a dotted time and goes on with HH:MM:SS, and the
\* time extracted is the second one
C23_Witness ==
    /\ SeveralTimes
    /\ HeadAt(parsed.message_text, 1, parser_time_patterns[4]) > 0
    /\ \E i \in 2..Len(parsed.message_text) :
          /\ HeadAt(parsed.message_text, i, parser_time_patterns[1]) > 0
          /\ parsed.value = Some(FormatGroups(Groups(parsed.message_text, i,
                                     parser_time_patterns[1])))
    /\ parsed.value # extract_time_Leftmost(parsed.message_text)

\* C24: _extract_description returns the fallback phrase when the cleaned
\* text has fewer than 10 characters and otherwise the first 200
\* characters of the cleaned text, so that a description other than the
\* fallback phrase has between 10 and 200 characters
C24_FallbackOrTruncated ==
    parsed.pc = "described"
    => /\ ~parsed.raised
       /\ Len(Cleaned(parsed.message_text)) < 10 => parsed.value = Fallback
       /\ Len(Cleaned(parsed.message_text)) >= 10
          => parsed.value = Take(Cleaned(parsed.message_text), 200)
       /\ parsed.value # Fallback
          => Len(parsed.value) >= 10 /\ Len(parsed.value) <= 200

\* a step of start() that created a task
Created == loop'.pc = "created" /\ loop.pc # "created"

\* a step of start() that found a task running and only logged it
Refused ==
    /\ loop'.said = "Background task already running"
    /\ loop.said # "Background task already running"

\* C25: start() creates a new task exactly when there is no task or the
\* last task is done; called while a task exists and is not done, it
\* creates no second task and leaves the running one as it is.
C25_StartCreatesTaskOnlyWhenNoneOrDone ==
    [][/\ Created => (~TaskExists \/ TaskDone)
       /\ Refused => /\ TaskExists /\ ~TaskDone
                     /\ loop'.pc = loop.pc
                     /\ loop'.cancel = loop.cancel
                     /\ calls' = calls]_vars

\* start() was called while the task was in a cycle, and refused
C25_Witness ==
    /\ loop.said = "Background task already running"
    /\ loop.pc = "cycle"
    /\ loop.is_running
    /\ calls[MaxCalls].pc # "idle"

\* a step of stop() that is seen: it cancelled the task or reset the flag
Stopped ==
    \/ loop'.said = "Background task stopped"
           /\ loop.said # "Background task stopped"
    \/ loop.is_running /\ ~loop'.is_running
    \/ loop'.cancel /\ ~loop.cancel

\* C26: after stop(), is_running is False and is_task_running() is False
\* whatever the state of the task; stop() cancels the task exactly when a
\* task exists and is not done.
C26_StopClearsFlagAndCancelsLiveTask ==
    [][Stopped => /\ ~loop'.is_running
                  /\ ~is_task_running'
                  /\ loop'.cancel <=> (TaskExists /\ ~TaskDone)]_vars

\* stop() was called on a task in its cycle: the flag is down, the
\* cancellation is on its way and the task is not done yet
C26_Witness ==
    /\ loop.said = "Background task stopped"
    /\ loop.cancel
    /\ loop.pc = "cycle"
    /\ ~loop.is_running
    /\ ~TaskDone

\* the cutoff the windowed fetch is to use for a days argument
CutoffFor(days) ==
    IF days = None THEN Some(Now - 30)
    ELSE IF Val(days) > 0 THEN Some(Now - Val(days))
    ELSE None

\* what the iteration with the cutoff for days yields
WindowOf(days) == iter_channel_messages(CutoffFor(days))

\* C27: the messages a windowed fetch receives are those of the iteration
\* with the cutoff 30 days before now when days is not given, D days
\* before now when days is D > 0, and with no cutoff when D <= 0: what it
\* has received so far are the first of them, and all of them once the
\* iteration has ended and the fetch has committed.
C27_CutoffFromDays ==
    \A c \in Calls :
       Iterated(c) =>
          /\ Len(calls[c].msgs) <= Len(WindowOf(calls[c].arg))
          /\ calls[c].msgs =
                SubSeq(WindowOf(calls[c].arg), 1, Len(calls[c].msgs))
          /\ calls[c].committed => calls[c].msgs = WindowOf(calls[c].arg)

\* a fetch without days stopped at the message older than 30 days, a fetch
\* with negative days got the whole channel
C27_Witness ==
    \E c, d \in Calls :
       /\ Iterated(c) /\ Iterated(d)
       /\ calls[c].arg = None
       /\ calls[c].committed
       /\ calls[c].msgs # <<>>
       /\ Len(calls[c].msgs) < Len(channel)
       /\ calls[d].arg # None
       /\ Val(calls[d].arg) < 0
       /\ calls[d].msgs = channel

\* a step that ran the migration
Migrates == schema'.runs = schema.runs + 1

\* C28: the migration adds image_data only when the table lacks it; when
\* the column is there it changes nothing and raises nothing; and a second
\* run leaves the schema the first run left.
C28_MigrationIsIdempotent ==
    /\ [][Migrates =>
            /\ "image_data" \in schema.columns
                  => schema'.columns = schema.columns /\ ~schema'.raised
            /\ "image_data" \notin schema.columns
                  => schema'.columns = schema.columns \cup {"image_data"}
            /\ schema'.exists = schema.exists]_vars
    /\ [](schema.runs > 0 =>
             add_image_data_column(schema).columns = schema.columns)

\* the migration ran twice on a table that lacked the column at first
C28_Witness ==
    /\ schema.runs = MaxStarts
    /\ schema.columns = OldColumns \cup {"image_data"}
    /\ ~schema.raised
    /\ proc.pc = "serving"

\* C29: with a credential missing the process ends at validate by an
\* exception and serves no request.
C29_MissingCredentialStopsStart ==
    (\E field \in required_fields :
        proc.env[field] = None \/ proc.env[field] = <<"">>)
    => /\ proc.pc \in {"start", "failed"}
       /\ proc.pc = "failed" => proc.raised
       /\ proc.served = 0
       /\ schema.runs = 0

\* the phone is set to the empty string, the other credentials are set,
\* and the process has ended by the exception of validate
C29_Witness ==
    /\ proc.env["TELEGRAM_PHONE"] = <<"">>
    /\ proc.env["TELEGRAM_API_ID"] = <<"set">>
    /\ proc.env["TELEGRAM_API_HASH"] = <<"set">>
    /\ proc.pc = "failed"
    /\ proc.raised
    /\ proc.served = 0

\* the step in which the bounded or windowed fetch c comes to its return
\* statement
ReturnsNow(c) ==
    /\ calls[c].result = None
    /\ calls'[c].result # None
    /\ calls'[c].entry \in {"fetch", "since", "cycle"}

\* C30: the number a bounded or windowed fetch returns is the number of
\* rows the call added to the committed store: the count of its staged
\* objects when the commit succeeds, 0 when the batch is rolled back.
C30_ReturnedCountIsRowsAdded ==
    [][\A c \in Calls :
          ReturnsNow(c) =>
             /\ Val(calls'[c].result) = Cardinality(store' \ store)
             /\ store \subseteq store'
             /\ calls'[c].committed => Val(calls'[c].result) = calls'[c].count
             /\ ~calls'[c].committed => Val(calls'[c].result) = 0]_vars

\* one call committed two rows and returned 2, another one had staged an
\* object, was rolled back and returned 0
C30_Witness ==
    \E c, d \in Calls :
       /\ calls[c].entry \in {"fetch", "since"}
       /\ calls[c].committed /\ calls[c].result = Some(2)
       /\ Cardinality({r \in store : r.id \in calls[c].added}) = 2
       /\ calls[d].entry \in {"fetch", "since"}
       /\ calls[d].errored /\ calls[d].count > 0
       /\ calls[d].result = Some(0)

\* the step in which the connect of call c fails: the await of the
\* connection raises, or connect() raises before it, in the step that
\* enters the fetch
ConnectFailed(c) ==
    \/ /\ calls[c].pc = "connect"
       /\ calls'[c].pc = "done"
    \/ /\ calls[c].pc = "idle"
       /\ calls'[c].pc = "done"
       /\ calls'[c].raised

\* C31: when connect fails the call ends by the exception, with no return
\* value (the endpoint answers 500), and the step leaves the store as it
\* is (but for the row a reload deleted before it entered the fetch); a
\* call that ended without connecting has committed nothing.
C31_ConnectFailurePropagates ==
    /\ [][\A c \in Calls :
             ConnectFailed(c) =>
                /\ calls'[c].raised
                /\ calls'[c].result = None
                /\ ~calls'[c].connected
                /\ calls'[c].disc = 0
                /\ calls'[c].entry \in {"fetch", "reload"}
                      => calls'[c].response = <<500>>
                /\ store' \subseteq store
                /\ (calls[c].pc = "connect" \/ calls'[c].entry # "reload")
                      => store' = store]_vars
    /\ [](\A c \in Calls :
             (Ended(c) /\ ~calls[c].connected /\ calls[c].entry \in {"fetch", "since"})
                => calls[c].raised /\ ~calls[c].committed /\ calls[c].added = {})

\* a bounded fetch ended at its connect by the exception, with rows of
\* another call in the store
C31_Witness ==
    \E c \in Calls :
       /\ calls[c].entry = "fetch"
       /\ Ended(c) /\ ~calls[c].connected
       /\ calls[c].raised /\ calls[c].response = <<500>>
       /\ store # {}

\* the step in which call c disconnects the gateway
Disconnects(c) ==
    /\ calls[c].pc = "disconnect"
    /\ calls'[c].pc = "done"

\* call d has connected and is retrieving messages or downloading a photo
UsesGateway(d) ==
    /\ calls[d].connected
    /\ calls[d].pc \in {"retrieve", "download"}

\* C32: no call disconnects the shared gateway while another call is
\* between its own connect and its own disconnect, retrieving or
\* downloading over the connection.
C32_NoDisconnectUnderAnotherCall ==
    [][\A c, d \in Calls :
          (c # d /\ Disconnects(c)) => ~UsesGateway(d)]_vars

\* the step in which the endpoint of the reload deletes the row
ReloadDeletes == \E c \in Calls : calls[c].pc = "idle" /\ calls'[c].entry = "reload"

\* C33: no step of a bounded or windowed fetch modifies or deletes a
\* stored record: every row of the store before the step is a row of the
\* store after it, with every column as it was.
C33_FetchKeepsExistingRecords ==
    [][~ReloadDeletes => \A r \in store : r \in store']_vars

\* two calls have committed rows one after the other and the rows of both
\* are in the store
C33_Witness ==
    \E c, d \in Calls :
       /\ c # d
       /\ calls[c].entry \in {"fetch", "since"} /\ calls[d].entry \in {"fetch", "since"}
       /\ calls[c].committed /\ calls[d].committed
       /\ calls[c].added # {} /\ calls[d].added # {}
       /\ \A id \in calls[c].added \cup calls[d].added : \E r \in store : r.id = id

\* the step in which the reload endpoint is entered by call c
ReloadStarts(c) == calls[c].pc = "idle" /\ calls'[c].entry = "reload"

\* C34: every row a step deletes is deleted by a reload entered in that
\* step and has the message_id the reload was asked for, and a step
\* deletes at most one row; a reload that finds no row of its message_id
\* deletes nothing and, unless the lookup itself raised, goes on to the
\* bounded fetch, which is suspended in its connect or, on a configuration
\* without the password attribute, has raised there.
C34_ReloadDeletesOnlyItsRecord ==
    [][/\ \A r \in store \ store' :
             \E c \in Calls :
                ReloadStarts(c) /\ r.message_id = Val(calls'[c].arg)
       /\ Cardinality(store \ store') <= 1
       /\ \A c \in Calls :
             (ReloadStarts(c) /\ RowsOf(Val(calls'[c].arg)) = {}) =>
                /\ store' = store
                /\ faults' = faults =>
                      IF proc.two_fa THEN calls'[c].pc = "connect"
                      ELSE /\ calls'[c].pc = "done"
                           /\ calls'[c].raised
                           /\ ~calls'[c].connected
                           /\ calls'[c].disc = 0]_vars

\* a reload has deleted the row of its message_id, a row another call had
\* committed, and goes on to its fetch with the other rows still stored
C34_Witness ==
    \E c, d \in Calls :
       /\ calls[c].entry = "reload" /\ calls[c].pc = "connect"
       /\ RowsOf(Val(calls[c].arg)) = {}
       /\ calls[d].committed
       /\ \E id \in calls[d].added : \A r \in store : r.id # id
       /\ \E r \in store : r.id \in calls[d].added

\* the step in which get_latest_messages returns to the bounded fetch c
\* (a store error in the loop after it is left to the except block)
Retrieved(c) ==
    /\ calls[c].pc = "retrieve"
    /\ calls'[c].pc # "retrieve"
    /\ calls[c].entry \in {"fetch", "reload"}
    /\ ~(faults' # faults /\ calls'[c].errored)

\* C35: get_latest_messages gives the bounded fetch the FetchLimit newest
\* messages of the channel, all of them, or, when the retrieval failed,
\* the empty list, and raises nothing; the fetch of a failed retrieval
\* comes to return 0 and leaves the store as it is.
C35_RetrievalIsAllOrNothing ==
    [][\A c \in Calls :
          Retrieved(c) =>
             /\ ~calls'[c].raised
             /\ faults' = faults =>
                   /\ Len(calls'[c].msgs) = Min(FetchLimit, Len(channel))
                   /\ \A i \in 1..Len(calls'[c].msgs) : calls'[c].msgs[i] = channel[i]
             /\ faults' # faults =>
                   /\ calls'[c].msgs = <<>>
                   /\ calls'[c].result = Some(0)
                   /\ store' = store]_vars

\* the retrieval of a bounded fetch failed on a channel with new text
\* messages: the fetch was answered with a count of 0 and nothing is stored
C35_Witness ==
    \E c \in Calls :
       /\ calls[c].entry = "fetch" /\ Ended(c)
       /\ calls[c].connected /\ ~calls[c].errored
       /\ calls[c].msgs = <<>>
       /\ calls[c].response = <<200, 0>>
       /\ \E i \in 1..Len(channel) : channel[i].text # <<>>
       /\ store = {}
       /\ faults = 1

\* the last call of start() or stop() that did something was a start()
StartedLast ==
    loop.said \in {"Background task started", "Background task already running"}

\* a task that has set is_running is in a bounded-fetch cycle
InCycle == loop.pc = "cycle" /\ loop.is_running /\ ~loop.cancel

\* C36: after start(), also after a start() that follows stop() at once,
\* before the cancelled task is done, a bounded-fetch cycle of a running
\* loop eventually executes (unless stop() is called again).
C36_StartAfterStopRunsAgain ==
    [](StartedLast => <>(InCycle \/ ~StartedLast))

\* the task of start() is in the while loop and not cancelled
TaskLoops == loop.pc \in {"cycle", "sleep", "backoff"} /\ ~loop.cancel

\* a start_periodic_updates() awaited directly is in the while loop
DirectLoops == loop.direct \in {"cycle", "sleep", "backoff"}

\* a step in which start_periodic_updates is entered with is_running set
EnteredWhileRunning ==
    /\ loop.is_running
    /\ \/ loop.pc = "created" /\ loop'.pc # "created" /\ ~loop.cancel
       \/ loop.direct \in {"off", "returned"} /\ loop'.direct # loop.direct

\* C37: never are two periodic update loops in their while loop with
\* is_running set, and a start_periodic_updates entered while is_running
\* is set returns at once without a fetch cycle.
C37_AtMostOneLoop ==
    /\ [](~(TaskLoops /\ DirectLoops /\ loop.is_running))
    /\ [][EnteredWhileRunning =>
            /\ loop'.pc \in {loop.pc, "returned"}
            /\ loop'.direct \in {loop.direct, "returned"}
            /\ calls' = calls]_vars

\* the order the patterns are to be tried in: H:MM:SS, H:MM, H.MM.SS, H.MM
ClaimedOrder ==
    << [sep |-> 58, groups |-> 3], [sep |-> 58, groups |-> 2],
       [sep |-> 46, groups |-> 3], [sep |-> 46, groups |-> 2] >>

\* pattern matches somewhere in the text
MatchesAnywhere(pattern, text) ==
    \E i \in 1..Len(text) : HeadAt(text, i, pattern) > 0

\* a field of one or two digits written with two ASCII digits
Padded(field) ==
    IF Len(field) = 1 THEN <<48, 48 + DigitValue(field[1])>>
    ELSE <<48 + DigitValue(field[1]), 48 + DigitValue(field[2])>>

\* the normalised form of the match of pattern that starts at position i
Normalised(text, i, pattern) ==
    LET head == HeadAt(text, i, pattern)
    IN  Padded(SubSeq(text, i, i + head - 1)) \o <<58>>
        \o Padded(SubSeq(text, i + head + 1, i + head + 2)) \o <<58>>
        \o (IF pattern.groups = 3
            THEN Padded(SubSeq(text, i + head + 4, i + head + 5))
            ELSE <<48, 48>>)

\* C38: _extract_time returns nothing exactly when none of the four
\* patterns matches in the text; otherwise it returns the normalised form
\* of the leftmost match of the first pattern, in the order H:MM:SS, H:MM,
\* H.MM.SS, H.MM, that matches anywhere in the text.
C38_PatternsInFixedOrder ==
    parsed.pc = "timed" =>
       LET text == parsed.message_text
           matching == {p \in 1..Len(ClaimedOrder) :
                           MatchesAnywhere(ClaimedOrder[p], text)}
       IN  IF matching = {}
           THEN parsed.value = None
           ELSE LET p == CHOOSE m \in matching : \A q \in matching : m <= q
                    hits == {i \in 1..Len(text) :
                                HeadAt(text, i, ClaimedOrder[p]) > 0}
                    i == CHOOSE h \in hits : \A j \in hits : h <= j
                IN  parsed.value = Some(Normalised(text, i, ClaimedOrder[p]))

\* a text with an H.MM time and an H:MM time and no H:MM:SS time gave the
\* H:MM time with seconds 00
C38_Witness ==
    /\ parsed.pc = "timed"
    /\ MatchesAnywhere(ClaimedOrder[4], parsed.message_text)
    /\ MatchesAnywhere(ClaimedOrder[2], parsed.message_text)
    /\ ~MatchesAnywhere(ClaimedOrder[1], parsed.message_text)
    /\ parsed.value = Some(<<48, 57, 58, 48, 53, 58, 48, 48>>)

\* the text without its first time-like substring
SubFirstTime(text) ==
    LET starts == TimeStarts(text, 1)
    IN  IF starts = {} THEN text
        ELSE LET i == CHOOSE h \in starts : \A j \in starts : h <= j
             IN  SubSeq(text, 1, i - 1)
                 \o SubSeq(text, i + TimeLikeAt(text, i), Len(text))

\* the clock emoji: the clock faces, alarm clock, stopwatch, timer clock,
\* mantelpiece clock
ClockEmoji == (128336..128359) \cup {9200, 9201, 9202, 128368}

\* the text without its first time-like substring, trimmed, without clock
\* emoji, its whitespace collapsed
RestOfText(text) ==
    Strip(SubSpaces(SelectSeq(Strip(SubFirstTime(text)),
                              LAMBDA ch : ch \notin ClockEmoji), 1))

\* C39: _extract_description returns, and when the text without its first
\* time-like substring, cleaned of clock emoji and surplus whitespace, has
\* 10 characters or more, the description is that text (its first 200
\* characters): a second time-like substring stays in it.
C39_OnlyFirstTimeRemoved ==
    parsed.pc = "described" =>
       /\ ~parsed.raised
       /\ Len(RestOfText(parsed.message_text)) >= 10
             => parsed.value = Take(RestOfText(parsed.message_text), 200)

=============================================================================
